---- MODULE Spec2Model ----
(***************************************************************************)
(* Simulation and billing engine of simulador-solar: the hourly battery    *)
(* dispatch and billing convergence loop of runSimulation, the monthly     *)
(* bill of calculateBill, and the tariff period resolver with the          *)
(* validation of custom schedules.                                         *)
(*                                                                         *)
(* Numbers.  The program computes in floating point; the model computes    *)
(* the same expressions exactly, in fixed point.  Energy is counted in     *)
(* units of 1/EnergyScale kWh and money in units of 1/Mil of a thousandth  *)
(* of a euro.  The scales are chosen so that every division the program    *)
(* performs on the modelled inputs is exact (ArithmeticExact checks it).   *)
(***************************************************************************)
EXTENDS Integers, Sequences, FiniteSets, TLC

VARIABLES
    pc,                     \* position of runSimulation: hourly, billing, iterate, done
    battery,                \* runSimulation's battery argument (NoBattery = null)
    offer,                  \* the CompanyOffer argument
    batteryLevel,           \* let batteryLevel (carried across the hours)
    hourlyResults,          \* const hourlyResults: HourlySimResult[]
    monthlyBreakdown,       \* let monthlyBreakdown (of the last billing pass)
    virtualBatteryBalance,  \* let virtualBatteryBalance (year-end balance of the last pass)
    passStart,              \* startBalance argument of the last runBillingPass call
    passes,                 \* number of runBillingPass calls made so far
    i,                      \* loop index of the convergence loop
    result,                 \* the returned SimulationResult (NoResult before the return)
    bill,                   \* the value returned by the last direct calculateBill call
    billArgs,               \* the arguments of that call
    schedule,               \* the TariffSchedule under validation and resolution
    errors,                 \* what validateSchedule returned for schedule
    query,                  \* the date whose 24 hours were last resolved
    periods,                \* resolveTariffPeriod of the 24 hours of query
    powerPeriods,           \* resolvePowerTariffPeriod of the 24 hours of query
    hpc,                    \* position of handleRun: idle, call, await, resolved
    running,                \* React state running
    error,                  \* React state error ("null" for null)
    errorCount,             \* number of setError calls with a message
    results,                \* React state results: the published SimulationResults
    selection,              \* what handleRun found selected when it was clicked
    mergedRecords,          \* const mergedRecords: the consumption of every run
    allResults,             \* const allResults of the batch under way
    offerIdx,               \* position of the offer loop in selectedOffers
    batIdx,                 \* 0 for the run without battery, k for selectedBats[k]
    sorted,                 \* const sorted of the runSimulation call under way
    queries,                \* the queries handed to the energy-price resolver
    energyPrices,           \* const energyPrices: what the resolver returned
    resolverCalls,          \* resolver invocations made by the call under way
    pvpcCache,              \* the dates held by the table db.pvpcPrices
    api,                    \* the market-price API: reachable or not, and its data
    shadowArgs,             \* the arguments of the last calculateShadowFactor call
    shadowFactor,           \* what that call returned
    solarInstallation,      \* the SolarInstallation handed to buildSolarIndex
    groupTotals             \* what buildSolarIndex returned for it

vars == << pc, battery, offer, batteryLevel, hourlyResults, monthlyBreakdown,
           virtualBatteryBalance, passStart, passes, i, result, bill, billArgs,
           schedule, errors, query, periods, powerPeriods,
           hpc, running, error, errorCount, results, selection, mergedRecords,
           allResults,
           offerIdx, batIdx, sorted, queries, energyPrices, resolverCalls,
           pvpcCache, api, shadowArgs, shadowFactor, solarInstallation, groupTotals >>

runVars == << pc, battery, offer, batteryLevel, hourlyResults, monthlyBreakdown,
              virtualBatteryBalance, passStart, passes, i, result >>
billVars == << bill, billArgs >>
tariffVars == << schedule, errors, query, periods, powerPeriods >>
batchVars == << hpc, running, error, errorCount, results, selection, mergedRecords,
           allResults,
                offerIdx, batIdx, sorted, queries, energyPrices, resolverCalls,
                pvpcCache, api >>
solarVars == << shadowArgs, shadowFactor, solarInstallation, groupTotals >>

----------------------------------------------------------------------------
(* Bounds of the model *)

\* number of consumption records of one run
MaxHours == 3
\* number of date ranges of a custom schedule
MaxRanges == 2
\* number of hourly results in a month handed to calculateBill directly
MaxMonthHours == 2

----------------------------------------------------------------------------
(* Units *)

\* energy units per kWh: 4 * 5 makes charging at 80 % and at 50 % exact
EnergyScale == 4 * 5
Kwh(n) == n * EnergyScale
\* money units per thousandth of a euro (mil): energy unit times two percentages
PerCentSquared == 100 * 100
Mil == EnergyScale * PerCentSquared
Euro == 1000 * Mil

Min(a, b) == IF a <= b THEN a ELSE b
Abs(x) == IF x < 0 THEN -x ELSE x

\* x * (p / 100)
Percent(x, p) == (x \div 100) * p

RECURSIVE SeqSum(_)
SeqSum(s) == IF s = << >> THEN 0 ELSE Head(s) + SeqSum(Tail(s))

RECURSIVE SortedSeqOf(_)
SortedSeqOf(S) ==
    IF S = {} THEN << >>
    ELSE LET m == CHOOSE x \in S : \A z \in S : x <= z
         IN << m >> \o SortedSeqOf(S \ {m})

----------------------------------------------------------------------------
(* Calendar: new Date(dateStr + 'T00:00:00Z') and its UTC getters *)

Date(y, m, d) == [y |-> y, m |-> m, d |-> d]

IsLeapYear(y) == y % 4 = 0 /\ (y % 100 # 0 \/ y % 400 = 0)

DaysInMonthOf(y, m) ==
    IF m = 2 THEN (IF IsLeapYear(y) THEN 29 ELSE 28)
    ELSE IF m \in {4, 6, 9, 11} THEN 30 ELSE 31

\* days since 1970-01-01 of a proleptic Gregorian date
DaysFromCivil(y, m, d) ==
    LET yy  == IF m <= 2 THEN y - 1 ELSE y
        era == yy \div 400
        yoe == yy - era * 400
        mp  == (m + 9) % 12
        doy == (153 * mp + 2) \div 5 + d - 1
        doe == yoe * 365 + yoe \div 4 - yoe \div 100 + doy
    IN era * 146097 + doe - 719468

\* Date.prototype.getUTCDay: 0 = Sunday .. 6 = Saturday (1970-01-01 was a Thursday)
getUTCDay(date) == (DaysFromCivil(date.y, date.m, date.d) + 4) % 7

NATIONAL_HOLIDAYS ==
    { <<1, 1>>, <<1, 6>>, <<5, 1>>, <<8, 15>>, <<10, 12>>, <<11, 1>>,
      <<12, 6>>, <<12, 8>>, <<12, 25>> }

isWeekend(date) == LET day == getUTCDay(date) IN day = 0 \/ day = 6

isNationalHoliday(date) == << date.m, date.d >> \in NATIONAL_HOLIDAYS

isHolidayOrWeekend(date) == isWeekend(date) \/ isNationalHoliday(date)

----------------------------------------------------------------------------
(* Tariff period resolver *)

\* the 2.0TD windows with punta starting at hour 10
getTariffPeriodEarlyPunta(date, hour) ==
    IF isWeekend(date) \/ isNationalHoliday(date) THEN "valle"
    ELSE IF hour >= 1 /\ hour <= 8 THEN "valle"
    ELSE IF (hour >= 10 /\ hour <= 14) \/ (hour >= 18 /\ hour <= 22) THEN "punta"
    ELSE "llano"

\* the hour windows of the regulated 2.0TD energy tariff
getTariffPeriod(date, hour) ==
    IF isWeekend(date) \/ isNationalHoliday(date) THEN "valle"
    ELSE IF hour >= 1 /\ hour <= 8 THEN "valle"
    ELSE IF (hour >= 11 /\ hour <= 14) \/ (hour >= 19 /\ hour <= 22) THEN "punta"
    ELSE "llano"

\* the power periods with the three windows of the energy tariff
getPowerTariffPeriodThreeWindows(date, hour) ==
    IF isWeekend(date) \/ isNationalHoliday(date) THEN "valle"
    ELSE IF hour >= 1 /\ hour <= 8 THEN "valle"
    ELSE IF (hour >= 11 /\ hour <= 14) \/ (hour >= 19 /\ hour <= 22) THEN "punta"
    ELSE "llano"

getPowerTariffPeriod(date, hour) ==
    IF isWeekend(date) \/ isNationalHoliday(date) THEN "valle"
    ELSE IF hour >= 1 /\ hour <= 8 THEN "valle"
    ELSE "punta"

\* the window test without the wrap over the year boundary
dateInRangeNoWrap(month, day, range) ==
    LET d     == month * 100 + day
        start == range.startMonth * 100 + range.startDay
        end   == range.endMonth * 100 + range.endDay
    IN d >= start /\ d <= end

dateInRange(month, day, range) ==
    LET d     == month * 100 + day
        start == range.startMonth * 100 + range.startDay
        end   == range.endMonth * 100 + range.endDay
    IN IF start <= end THEN d >= start /\ d <= end
       ELSE d >= start \/ d <= end

\* Array.prototype.find as the index of the first match (0 when there is none)
\* over the sequence of the callback's results, one per element
FindIndex(hits) ==
    IF \E k \in DOMAIN hits : hits[k]
    THEN CHOOSE k \in DOMAIN hits : hits[k] /\ \A j \in 1..(k - 1) : ~hits[j]
    ELSE 0

slotContains(ts, clockHour) ==
    IF ts.startHour < ts.endHour
    THEN clockHour >= ts.startHour /\ clockHour < ts.endHour
    ELSE clockHour >= ts.startHour \/ clockHour < ts.endHour

resolveCustomPeriod(date, hour, dateRanges) ==
    LET month   == date.m
        day     == date.d
        holiday == isHolidayOrWeekend(date)
        r       == FindIndex([k \in DOMAIN dateRanges |-> dateInRange(month, day, dateRanges[k])])
    IN IF r = 0 THEN "unknown"
       ELSE LET range == dateRanges[r] IN
            IF holiday /\ range.weekendBehavior = "specific" /\ range.weekendSlotName # ""
            THEN range.weekendSlotName
            ELSE LET clockHour == hour - 1
                     t == FindIndex([k \in DOMAIN range.timeSlots |->
                                       slotContains(range.timeSlots[k], clockHour)])
                 IN IF t = 0 THEN "unknown" ELSE range.timeSlots[t].name

\* !schedule || schedule.type === 'flat'
IsFlat(sched) == sched.type = "null" \/ sched.type = "flat"

\* a missing schedule resolved as the regulated one
resolveTariffPeriodNullRegulated(sched, date, hour) ==
    IF sched.type = "flat" THEN "flat"
    ELSE IF sched.type \in {"2.0TD", "null"} THEN getTariffPeriod(date, hour)
    ELSE resolveCustomPeriod(date, hour, sched.dateRanges)

resolveTariffPeriod(sched, date, hour) ==
    IF IsFlat(sched) THEN "flat"
    ELSE IF sched.type = "2.0TD" THEN getTariffPeriod(date, hour)
    ELSE resolveCustomPeriod(date, hour, sched.dateRanges)

resolvePowerTariffPeriod(sched, date, hour) ==
    IF IsFlat(sched) THEN "flat"
    ELSE IF sched.type = "2.0TD" THEN getPowerTariffPeriod(date, hour)
    ELSE resolveCustomPeriod(date, hour, sched.dateRanges)

----------------------------------------------------------------------------
(* Validation of custom schedules *)

DAYS_IN_MONTH == << 31, 29, 31, 30, 31, 30, 31, 31, 30, 31, 30, 31 >>

RECURSIVE MONTH_START(_)
MONTH_START(m) == IF m = 0 THEN 0 ELSE MONTH_START(m - 1) + DAYS_IN_MONTH[m]

\* MONTH_START above is indexed from 0 like the program's array
dayOfYear(month, day) == MONTH_START(month - 1) + (day - 1)

TOTAL_DAYS == 366

Error(kind, a, b, ex) == [kind |-> kind, a |-> a, b |-> b, ex |-> ex]

\* coverage[d] of validateDateRanges: the 0-based indices of the ranges covering day d
dateCoverage(dateRanges, d) ==
    { r - 1 : r \in { k \in DOMAIN dateRanges :
        LET start == dayOfYear(dateRanges[k].startMonth, dateRanges[k].startDay)
            end   == dayOfYear(dateRanges[k].endMonth, dateRanges[k].endDay)
        IN IF start <= end THEN d >= start /\ d <= end
           ELSE (d >= start /\ d < TOTAL_DAYS) \/ (d >= 0 /\ d <= end) } }

validateDateRanges(dateRanges) ==
    LET days      == 0..(TOTAL_DAYS - 1)
        cov(d)    == dateCoverage(dateRanges, d)
        uncovered == { d \in days : cov(d) = {} }
        \* a gap is a maximal run of uncovered days, reported in order of its start
        gapStarts == { d \in uncovered : d = 0 \/ (d - 1) \notin uncovered }
        gapEnd(g) == CHOOSE e \in uncovered :
                        /\ e >= g
                        /\ \A x \in g..e : x \in uncovered
                        /\ (e = TOTAL_DAYS - 1 \/ (e + 1) \notin uncovered)
        gapSeq    == SortedSeqOf(gapStarts)
        gaps      == [ k \in DOMAIN gapSeq |->
                         Error("dateGap", gapSeq[k], gapEnd(gapSeq[k]), gapSeq[k]) ]
        n         == Len(dateRanges)
        pairs     == { p \in (0..(n - 1)) \X (0..(n - 1)) :
                         p[1] < p[2] /\ \E d \in days : {p[1], p[2]} \subseteq cov(d) }
        firstDay(p) == CHOOSE d \in days :
                         /\ {p[1], p[2]} \subseteq cov(d)
                         /\ \A x \in 0..(d - 1) : ~({p[1], p[2]} \subseteq cov(x))
        \* pairs are reported once, at their first common day, in loop order
        key(p)    == (firstDay(p) * (n + 1) + p[1]) * (n + 1) + p[2]
        keySeq    == SortedSeqOf({ key(p) : p \in pairs })
        pairOf(k) == CHOOSE p \in pairs : key(p) = k
        overlaps  == [ k \in DOMAIN keySeq |->
                         Error("dateOverlap", pairOf(keySeq[k])[1], pairOf(keySeq[k])[2],
                               firstDay(pairOf(keySeq[k]))) ]
    IN gaps \o overlaps

\* coverage[h] of validateTimeSlots
slotCoverage(timeSlots, h) ==
    { s - 1 : s \in { k \in DOMAIN timeSlots :
        LET ts == timeSlots[k]
        IN IF ts.startHour < ts.endHour THEN h >= ts.startHour /\ h < ts.endHour
           ELSE (h >= ts.startHour /\ h < 24) \/ (h >= 0 /\ h < ts.endHour) } }

validateTimeSlots(timeSlots) ==
    LET hours   == 0..23
        gapH    == { h \in hours : slotCoverage(timeSlots, h) = {} }
        overH   == { h \in hours : Cardinality(slotCoverage(timeSlots, h)) > 1 }
        first(S) == CHOOSE h \in S : \A x \in S : h <= x
    IN (IF gapH = {} THEN << >> ELSE << Error("slotGap", 0, 0, first(gapH)) >>)
       \o (IF overH = {} THEN << >> ELSE << Error("slotOverlap", 0, 0, first(overH)) >>)

RECURSIVE slotErrorsFrom(_, _)
slotErrorsFrom(dateRanges, k) ==
    IF k > Len(dateRanges) THEN << >>
    ELSE LET tsErrors == validateTimeSlots(dateRanges[k].timeSlots)
         IN [ e \in DOMAIN tsErrors |-> [ tsErrors[e] EXCEPT !.a = k - 1 ] ]
            \o slotErrorsFrom(dateRanges, k + 1)

validateSchedule(sched) ==
    IF sched.type # "custom" THEN << >>
    ELSE IF Len(sched.dateRanges) = 0 THEN << >>
    ELSE validateDateRanges(sched.dateRanges) \o slotErrorsFrom(sched.dateRanges, 1)

----------------------------------------------------------------------------
(* The schedule editor and the resolver: inputs *)

TimeSlot(name, startHour, endHour) ==
    [name |-> name, startHour |-> startHour, endHour |-> endHour]

DateRange(sm, sd, em, ed, wb, wname, slots) ==
    [startMonth |-> sm, startDay |-> sd, endMonth |-> em, endDay |-> ed,
     weekendBehavior |-> wb, weekendSlotName |-> wname, timeSlots |-> slots]

AllDaySlots    == << TimeSlot("todo", 0, 24) >>
DayNightSlots  == << TimeSlot("valle", 0, 8), TimeSlot("punta", 8, 24) >>
NightWrapSlots == << TimeSlot("valle", 22, 8), TimeSlot("punta", 8, 22) >>
BrokenSlots    == << TimeSlot("valle", 0, 10), TimeSlot("punta", 8, 22) >>

\* the date ranges a custom schedule is built from: the editor accepts any
\* day 1..31 with any month 1..12, and a range may wrap over the year boundary
DateRangeChoices ==
    { DateRange(1, 1, 12, 31, "same", "", AllDaySlots),
      DateRange(11, 1, 2, 29, "specific", "finde", DayNightSlots),
      DateRange(3, 1, 10, 31, "same", "", NightWrapSlots),
      DateRange(1, 1, 2, 31, "same", "", AllDaySlots),
      DateRange(3, 3, 12, 31, "specific", "", DayNightSlots),
      DateRange(7, 1, 12, 31, "same", "", BrokenSlots) }

\* the sequences of at most n distinct elements of S
RECURSIVE SeqsUpTo(_, _)
SeqsUpTo(S, n) ==
    IF n = 0 THEN { << >> }
    ELSE LET shorter == SeqsUpTo(S, n - 1)
         IN shorter \cup
            UNION { { Append(q, x) : x \in { y \in S : \A k \in DOMAIN q : q[k] # y } } :
                    q \in shorter }

NullSchedule == [type |-> "null"]
FlatSchedule == [type |-> "flat"]
Schedule20TD == [type |-> "2.0TD"]
CustomSchedule(dateRanges) == [type |-> "custom", dateRanges |-> dateRanges]

Schedules ==
    { NullSchedule, FlatSchedule, Schedule20TD }
    \cup { CustomSchedule(q) : q \in SeqsUpTo(DateRangeChoices, MaxRanges) }

Years == { 2024, 2025 }

Dates == { Date(y, m, d) : y \in Years, m \in 1..12, d \in 1..31 } 

CalendarDates == { dt \in Dates : dt.d <= DaysInMonthOf(dt.y, dt.m) }

Hours == 1..24

NoQuery == [y |-> 0, m |-> 0, d |-> 0]

----------------------------------------------------------------------------
(* The schedule editor and the resolver: actions *)

\* the editor's form starts as emptySchedule and is validated on every change
TariffInit ==
    /\ schedule = Schedule20TD
    /\ errors = validateSchedule(Schedule20TD)
    /\ query = NoQuery
    /\ periods = << >>
    /\ powerPeriods = << >>

\* the form, opened as emptySchedule, is edited into the schedule that is saved
EditSchedule ==
    /\ query = NoQuery
    /\ schedule = Schedule20TD
    /\ \E s \in Schedules :
        /\ schedule' = s
        /\ errors' = validateSchedule(s)
    /\ query' = NoQuery
    /\ periods' = << >>
    /\ powerPeriods' = << >>
    /\ UNCHANGED << runVars, billVars, batchVars, solarVars >>

\* the periods of every hour 1..24 of one date, as a batch of queries resolves them
ResolveDay ==
    /\ query = NoQuery
    /\ \E date \in CalendarDates :
        /\ query' = date
        /\ periods' = [ h \in Hours |-> resolveTariffPeriod(schedule, date, h) ]
        /\ powerPeriods' = [ h \in Hours |-> resolvePowerTariffPeriod(schedule, date, h) ]
    /\ UNCHANGED << schedule, errors, runVars, billVars, batchVars, solarVars >>

----------------------------------------------------------------------------
(* Battery dispatch of one hour (runSimulation's loop body) *)

NoBattery == [present |-> FALSE, capacityKwh |-> 0, maxPowerW |-> 0,
              roundTripEfficiency |-> 0]
Battery(capacityKwh, maxPowerW, roundTripEfficiency) ==
    [present |-> TRUE, capacityKwh |-> capacityKwh, maxPowerW |-> maxPowerW,
     roundTripEfficiency |-> roundTripEfficiency]

\* battery?.capacityKwh ?? 0, in energy units
batteryCapacity(bat) == IF bat.present THEN Kwh(bat.capacityKwh) ELSE 0
\* battery ? battery.maxPowerW / 1000 : 0, in energy units per hour
batteryMaxPowerKw(bat) == IF bat.present THEN (bat.maxPowerW * EnergyScale) \div 1000 ELSE 0
\* battery ? battery.roundTripEfficiency / 100 : 0.9, as a percentage
batteryEfficiency(bat) == IF bat.present THEN bat.roundTripEfficiency ELSE 90

Flow(batteryCharge, batteryLoss, level, net) ==
    [batteryCharge |-> batteryCharge, batteryLoss |-> batteryLoss,
     batteryLevel |-> level, net |-> net]

\* Discharge without the limit of the battery's power
DischargeIgnoringPower(level, net, bat) ==
    LET canDischarge == Min(level, net)
    IN Flow(-canDischarge, 0, level - canDischarge, net - canDischarge)

\* Discharge with the discharged energy not taken off the net load
DischargeKeepingNet(level, net, bat) ==
    LET canDischarge == Min(Min(level, batteryMaxPowerKw(bat)), net)
    IN Flow(-canDischarge, 0, level - canDischarge, net)

\* net > 0: the battery covers what it can of the deficit
Discharge(level, net, bat) ==
    LET canDischarge == Min(Min(level, batteryMaxPowerKw(bat)), net)
    IN Flow(-canDischarge, 0, level - canDischarge, net - canDischarge)

\* Charge with the room left in the battery not divided by the efficiency
ChargeUpToRoom(level, net, bat) ==
    LET surplus   == -net
        eff       == batteryEfficiency(bat)
        canCharge == Min(Min(batteryCapacity(bat) - level, batteryMaxPowerKw(bat)), surplus)
    IN Flow(canCharge, (canCharge * (100 - eff)) \div 100,
            level + (canCharge * eff) \div 100, net + canCharge)

\* Charge with the whole charge stored, the round-trip loss not taken off it
ChargeWithoutLoss(level, net, bat) ==
    LET surplus   == -net
        eff       == batteryEfficiency(bat)
        canCharge == Min(Min(((batteryCapacity(bat) - level) * 100) \div eff,
                             batteryMaxPowerKw(bat)), surplus)
    IN Flow(canCharge, (canCharge * (100 - eff)) \div 100, level + canCharge,
            net + canCharge)

\* net < 0: the battery takes what it can of the surplus
Charge(level, net, bat) ==
    LET surplus   == -net
        eff       == batteryEfficiency(bat)
        canCharge == Min(Min(((batteryCapacity(bat) - level) * 100) \div eff,
                             batteryMaxPowerKw(bat)), surplus)
    IN Flow(canCharge, (canCharge * (100 - eff)) \div 100,
            level + (canCharge * eff) \div 100, net + canCharge)

Dispatch(level, net, bat) ==
    IF bat.present
    THEN IF net > 0 THEN Discharge(level, net, bat)
         ELSE IF net < 0 THEN Charge(level, net, bat)
         ELSE Flow(0, 0, level, net)
    ELSE Flow(0, 0, level, net)

gridPurchaseOf(net) == IF net > 0 THEN net ELSE 0
\* the surplus with the sign of net kept
gridSurplusOfSigned(net) == IF net < 0 THEN net ELSE 0

gridSurplusOf(net) == IF net < 0 THEN -net ELSE 0

----------------------------------------------------------------------------
(* Prices of one hour *)

\* record[period] ?? 0
Lookup(table, period) == IF period \in DOMAIN table THEN table[period] ELSE 0

\* the schedule-derived resolver of createEnergyPriceResolver, for one query
scheduleEnergyPrice(off, sched, date, hour) ==
    Lookup(off.prices, resolveTariffPeriod(sched, date, hour))

getPowerTermPrice(off, period) == Lookup(off.powerPrices, period)

getContractedPower(off, period) ==
    IF off.contractedPowerIsNumber THEN off.contractedPowerKw
    ELSE Lookup(off.contractedPowerByPeriod, period)

\* money of an amount of energy (in energy units) at a price per kWh (in mils)
EnergyMoney(energy, pricePerKwh) == energy * pricePerKwh * PerCentSquared

\* powerTermPrice * contractedPower / 24, price in mils per kW and day
powerTermCostOf(powerTermPrice, contractedPower) ==
    (powerTermPrice * contractedPower * Mil) \div 24

\* PVPC_POWER_PRICES divided by the days of the year, in mils per kW and day
\* rounded to multiples of 6 (the program's values are 31.006996 / 365 and so on)
PVPC_POWER_PRICES ==
    [y \in 2021..2026 |->
        CASE y = 2021 -> [punta |-> 96, valle |-> 12]
          [] y = 2022 -> [punta |-> 90, valle |-> 12]
          [] y = 2023 -> [punta |-> 78, valle |-> 6]
          [] y = 2024 -> [punta |-> 78, valle |-> 6]
          [] y = 2025 -> [punta |-> 84, valle |-> 6]
          [] y = 2026 -> [punta |-> 90, valle |-> 6]]

\* the year clamped to the known years
getPvpcPowerPrices(year) ==
    LET y == IF year < 2021 THEN 2021 ELSE IF year > 2026 THEN 2026 ELSE year
    IN PVPC_POWER_PRICES[y]

\* the power-term price with the period's own zero price when there is none
powerTermPriceOfZeroDefault(off, date, powerPeriod) ==
    IF off.usePvpcPrices
    THEN Lookup(getPvpcPowerPrices(date.y), powerPeriod)
    ELSE getPowerTermPrice(off, powerPeriod)

\* pvpcPower[powerPeriod] ?? pvpcPower.punta under usePvpcPrices, else
\* getPowerTermPrice
powerTermPriceOf(off, date, powerPeriod) ==
    IF off.usePvpcPrices
    THEN LET pvpcPower == getPvpcPowerPrices(date.y)
         IN IF powerPeriod \in DOMAIN pvpcPower THEN pvpcPower[powerPeriod]
            ELSE pvpcPower.punta
    ELSE getPowerTermPrice(off, powerPeriod)

\* one iteration of the hourly loop with energyPrices[i] given: the
\* HourlySimResult pushed, whose batteryLevel is the level carried into the
\* next hour
hourlyResultOf(level, bat, off, sched, powerSched, date, hour, consumptionKwh, solarProduction, energyPrice) ==
    LET flow          == Dispatch(level, consumptionKwh - solarProduction, bat)
        gridPurchase  == gridPurchaseOf(flow.net)
        gridSurplus   == gridSurplusOf(flow.net)
        tariffPeriod  == resolveTariffPeriod(sched, date, hour)
        powerPeriod   == resolvePowerTariffPeriod(powerSched, date, hour)
        powerTermPrice  == powerTermPriceOf(off, date, powerPeriod)
        contractedPower == getContractedPower(off, powerPeriod)
    IN [date |-> date, hour |-> hour,
        consumption |-> consumptionKwh,
        solarProduction |-> solarProduction,
        batteryCharge |-> flow.batteryCharge,
        batteryLoss |-> flow.batteryLoss,
        batteryLevel |-> flow.batteryLevel,
        gridPurchase |-> gridPurchase,
        gridSurplus |-> gridSurplus,
        tariffPeriod |-> tariffPeriod,
        energyPrice |-> energyPrice,
        powerTermCost |-> powerTermCostOf(powerTermPrice, contractedPower),
        powerTermPrice |-> powerTermPrice,
        energyCost |-> EnergyMoney(gridPurchase, energyPrice),
        surplusValue |-> EnergyMoney(gridSurplus, off.surplusCompensationPerKwh)]

\* one iteration of the hourly loop under the schedule-derived resolver, whose
\* price for the record is offer.prices[period] ?? 0
simulateHour(level, bat, off, sched, powerSched, date, hour, consumptionKwh, solarProduction) ==
    hourlyResultOf(level, bat, off, sched, powerSched, date, hour, consumptionKwh,
                   solarProduction, scheduleEnergyPrice(off, sched, date, hour))

----------------------------------------------------------------------------
(* Bill calculator *)

Bill(energyCost, surplusGenerated, surplusCompensation, deposited, used, fee, powerTerm, meterRental, electricityTax, iva, total, newBalance) ==
    [energyCost |-> energyCost,
     surplusGenerated |-> surplusGenerated,
     surplusCompensation |-> surplusCompensation,
     virtualBatteryDepositedEuros |-> deposited,
     virtualBatteryUsedEuros |-> used,
     virtualBatteryFee |-> fee,
     powerTerm |-> powerTerm,
     meterRental |-> meterRental,
     electricityTax |-> electricityTax,
     iva |-> iva,
     total |-> total,
     newVirtualBatteryBalance |-> newBalance]

\* the cap applied only when the flag is set: surplusCompensationCapped === true
isCappedStrict(off) == off.surplusCompensationCapped = "true"

\* offer.surplusCompensationCapped !== false ("unset" is the absent flag)
isCapped(off) == off.surplusCompensationCapped # "false"

surplusCompensationOf(off, surplusGenerated, energyCost) ==
    IF isCapped(off) THEN Min(surplusGenerated, energyCost) ELSE surplusGenerated

\* the credit drawn as Math.max(currentBalance, totalBeforeVB)
virtualBatteryUsedLarger(off, currentBalance, totalBeforeVB) ==
    IF off.hasVirtualBattery
    THEN (IF currentBalance >= totalBeforeVB THEN currentBalance ELSE totalBeforeVB)
    ELSE 0

\* the whole bill paid from the balance, whatever the balance
virtualBatteryUsedBeyondBalance(off, currentBalance, totalBeforeVB) ==
    IF off.hasVirtualBattery THEN totalBeforeVB ELSE 0

\* the whole balance drawn, whatever the bill
virtualBatteryUsedWhole(off, currentBalance, totalBeforeVB) ==
    IF off.hasVirtualBattery THEN currentBalance ELSE 0

\* the credit drawn: Math.min(currentBalance, totalBeforeVB) under hasVirtualBattery
virtualBatteryUsedOf(off, currentBalance, totalBeforeVB) ==
    IF off.hasVirtualBattery THEN Min(currentBalance, totalBeforeVB) ELSE 0

\* the leftover surplus deposited whether or not the offer has a virtual battery
virtualBatteryDepositedAlways(off, surplusLeftover) == surplusLeftover

\* the leftover surplus deposited under hasVirtualBattery
virtualBatteryDepositedOf(off, surplusLeftover) ==
    IF off.hasVirtualBattery THEN surplusLeftover ELSE 0

\* EMPTY_BILL with the balance reset
emptyBillResetBalance(balance) == Bill(0, 0, 0, 0, 0, 0, 0, 0, 0, 0, 0, 0)

\* { ...EMPTY_BILL, newVirtualBatteryBalance: virtualBatteryBalance }
emptyBill(balance) == Bill(0, 0, 0, 0, 0, 0, 0, 0, 0, 0, 0, balance)

calculateBill(hrs, off, balance) ==
    IF Len(hrs) = 0
    THEN emptyBill(balance)
    ELSE
    LET energyCost       == SeqSum([ k \in DOMAIN hrs |-> hrs[k].energyCost ])
        powerTerm        == SeqSum([ k \in DOMAIN hrs |-> hrs[k].powerTermCost ])
        surplusGenerated == SeqSum([ k \in DOMAIN hrs |-> hrs[k].surplusValue ])
        days             == Cardinality({ hrs[k].date : k \in DOMAIN hrs })
        surplusCompensation == surplusCompensationOf(off, surplusGenerated, energyCost)
        virtualBatteryFee == IF off.hasVirtualBattery THEN off.virtualBatteryMonthlyFee ELSE 0
        netEnergyCost    == energyCost - surplusCompensation
        surplusLeftover  == surplusGenerated - surplusCompensation
        meterRental      == off.meterRentalPerDay * days
        electricityTax   == Percent(powerTerm + netEnergyCost, off.electricityTaxPercent)
        subtotal         == netEnergyCost + powerTerm + meterRental + electricityTax
                            + virtualBatteryFee
        iva              == Percent(subtotal, off.ivaPercent)
        totalBeforeVB    == subtotal + iva
        used             == virtualBatteryUsedOf(off, balance, totalBeforeVB)
        deposited        == virtualBatteryDepositedOf(off, surplusLeftover)
        currentBalance   == balance - used + deposited
    IN Bill(energyCost, surplusGenerated, surplusCompensation, deposited, used,
            virtualBatteryFee, powerTerm, meterRental, electricityTax, iva,
            totalBeforeVB - used, currentBalance)

----------------------------------------------------------------------------
(* Monthly grouping and the billing pass *)

\* hr.date.substring(0, 7): 'YYYY-MM', ordered as year * 100 + month
monthOf(date) == date.y * 100 + date.m

\* [...monthlyMap.keys()].sort()
sortedMonths(hrs) == SortedSeqOf({ monthOf(hrs[k].date) : k \in DOMAIN hrs })

\* monthlyMap.get(month)
hoursOfMonth(hrs, month) == SelectSeq(hrs, LAMBDA h : monthOf(h.date) = month)

\* a ratio num/den with den > 0; 0 is 0/1
Ratio(num, den) == [num |-> num, den |-> den]

selfConsumptionRatioOf(consumptionKwh, selfConsumed) ==
    IF consumptionKwh > 0 THEN Ratio(selfConsumed, consumptionKwh) ELSE Ratio(0, 1)

monthRecord(month, hours, monthBill, balance) ==
    LET consumptionKwh  == SeqSum([ k \in DOMAIN hours |-> hours[k].consumption ])
        solarKwh        == SeqSum([ k \in DOMAIN hours |-> hours[k].solarProduction ])
        gridPurchaseKwh == SeqSum([ k \in DOMAIN hours |-> hours[k].gridPurchase ])
        gridSurplusKwh  == SeqSum([ k \in DOMAIN hours |-> hours[k].gridSurplus ])
        selfConsumed    == solarKwh - gridSurplusKwh
    IN [month |-> month,
        energyCost |-> monthBill.energyCost,
        surplusCompensation |-> monthBill.surplusCompensation,
        virtualBatteryDepositedEuros |-> monthBill.virtualBatteryDepositedEuros,
        virtualBatteryUsedEuros |-> monthBill.virtualBatteryUsedEuros,
        virtualBatteryBalance |-> balance,
        virtualBatteryFee |-> monthBill.virtualBatteryFee,
        powerTerm |-> monthBill.powerTerm,
        meterRental |-> monthBill.meterRental,
        electricityTax |-> monthBill.electricityTax,
        iva |-> monthBill.iva,
        total |-> monthBill.total,
        selfConsumptionRatio |-> selfConsumptionRatioOf(consumptionKwh, selfConsumed),
        gridPurchaseKwh |-> gridPurchaseKwh,
        gridSurplusKwh |-> gridSurplusKwh,
        consumptionKwh |-> consumptionKwh,
        solarProductionKwh |-> solarKwh]

\* the loop of runBillingPass over the months from position k on
RECURSIVE billMonths(_, _, _, _, _, _)
billMonths(hrs, off, months, k, balance, breakdown) ==
    IF k > Len(months) THEN [breakdown |-> breakdown, endBalance |-> balance]
    ELSE CHOOSE ret \in
           { billMonths(hrs, off, months, k + 1, monthBill.newVirtualBatteryBalance,
                        Append(breakdown,
                               monthRecord(months[k], hoursOfMonth(hrs, months[k]), monthBill,
                                           monthBill.newVirtualBatteryBalance))) :
             monthBill \in { calculateBill(hoursOfMonth(hrs, months[k]), off, balance) } } :
           TRUE

runBillingPass(hrs, off, startBalance) ==
    billMonths(hrs, off, sortedMonths(hrs), 1, startBalance, << >>)

----------------------------------------------------------------------------
(* Inputs of a simulation run *)

Batteries ==
    { NoBattery,
      Battery(2, 1000, 80),
      Battery(5, 5000, 50) }

EnergyPrices == [punta |-> 200, llano |-> 150, valle |-> 100]
PowerPrices  == [punta |-> 90, valle |-> 30]

\* an offer without or with fixed charges, taxes and a virtual-battery fee
Offer(hasVirtualBattery, capped, compensation, fixedCharges) ==
    [hasVirtualBattery |-> hasVirtualBattery,
     surplusCompensationCapped |-> capped,
     surplusCompensationPerKwh |-> compensation,
     usePvpcPrices |-> FALSE,
     prices |-> EnergyPrices,
     powerPrices |-> IF fixedCharges THEN PowerPrices ELSE [punta |-> 0, valle |-> 0],
     contractedPowerIsNumber |-> TRUE,
     contractedPowerKw |-> 4,
     contractedPowerByPeriod |-> [punta |-> 4, valle |-> 4],
     virtualBatteryMonthlyFee |-> IF fixedCharges THEN 20 * Mil ELSE 0,
     meterRentalPerDay |-> IF fixedCharges THEN 10 * Mil ELSE 0,
     electricityTaxPercent |-> IF fixedCharges THEN 5 ELSE 0,
     ivaPercent |-> IF fixedCharges THEN 21 ELSE 0]

Offers ==
    { Offer(vb, capped, comp, fixed) :
        vb \in BOOLEAN, capped \in {"unset", "true", "false"},
        comp \in {5, 50}, fixed \in BOOLEAN }

\* the schedules handleRun passes for the offer (the power schedule defaults to
\* the energy schedule)
RunSchedule == Schedule20TD
RunPowerSchedule == RunSchedule

\* the (date, hour) of the consumption records a run may hold, in ascending order
RunSlots ==
    << [date |-> Date(2025, 1, 31), hour |-> 5],
       [date |-> Date(2025, 1, 31), hour |-> 12],
       [date |-> Date(2025, 2, 1), hour |-> 12],
       [date |-> Date(2025, 2, 3), hour |-> 16] >>

ConsumptionValues == { Kwh(0), Kwh(2) }
ProductionValues  == { Kwh(0), Kwh(3) }

\* the position in RunSlots of the last processed record (0 before the first)
lastSlot(hrs) ==
    IF hrs = << >> THEN 0
    ELSE CHOOSE k \in DOMAIN RunSlots :
            /\ RunSlots[k].date = hrs[Len(hrs)].date
            /\ RunSlots[k].hour = hrs[Len(hrs)].hour

MaxIterations == 10
\* 0.01 currency units
ConvergenceThreshold == 10 * Mil

\* the loop condition as i <= 10
loopContinuesInclusive(n) == n <= MaxIterations

\* the loop condition i < 10
loopContinues(n) == n < MaxIterations

\* the break condition as <= 0.01
convergedInclusive(balance, prev) == Abs(balance - prev) <= ConvergenceThreshold

\* the break condition Math.abs(virtualBatteryBalance - prev) < 0.01
converged(balance, prev) == Abs(balance - prev) < ConvergenceThreshold

NoResult == [returned |-> FALSE]

simulationResult(hrs, breakdown, balance) ==
    LET totalConsumption     == SeqSum([ k \in DOMAIN hrs |-> hrs[k].consumption ])
        totalSolarProduction == SeqSum([ k \in DOMAIN hrs |-> hrs[k].solarProduction ])
        totalGridPurchase    == SeqSum([ k \in DOMAIN hrs |-> hrs[k].gridPurchase ])
        totalGridSurplus     == SeqSum([ k \in DOMAIN hrs |-> hrs[k].gridSurplus ])
        selfConsumed         == totalSolarProduction - totalGridSurplus
    IN [returned |-> TRUE,
        totalAnnualCost |-> SeqSum([ k \in DOMAIN breakdown |-> breakdown[k].total ]),
        totalConsumption |-> totalConsumption,
        totalSolarProduction |-> totalSolarProduction,
        totalGridPurchase |-> totalGridPurchase,
        totalGridSurplus |-> totalGridSurplus,
        totalSurplusCompensation |->
            SeqSum([ k \in DOMAIN breakdown |-> breakdown[k].surplusCompensation ]),
        selfConsumptionRatio |-> selfConsumptionRatioOf(totalConsumption, selfConsumed),
        virtualBatteryBalance |-> balance,
        monthlyBreakdown |-> breakdown,
        hourlyResults |-> hrs]

----------------------------------------------------------------------------
(* runSimulation as a state machine *)

TariffIdle ==
    /\ schedule = Schedule20TD
    /\ errors = << >>
    /\ query = NoQuery
    /\ periods = << >>
    /\ powerPeriods = << >>

NoBill == [called |-> FALSE]

NoSelection == [clicked |-> FALSE]
NoApi == [up |-> FALSE, marketDates |-> {}]

NoShadowCall == [called |-> FALSE]
NoInstallationBuilt == [built |-> FALSE]

\* before any call of calculateShadowFactor and of buildSolarIndex
SolarIdle ==
    /\ shadowArgs = NoShadowCall
    /\ shadowFactor = NoShadowCall
    /\ solarInstallation = NoInstallationBuilt
    /\ groupTotals = << >>

\* the analysis page before any click on the run button
BatchIdle ==
    /\ hpc = "idle"
    /\ running = FALSE
    /\ error = "null"
    /\ errorCount = 0
    /\ results = << >>
    /\ selection = NoSelection
    /\ mergedRecords = << >>
    /\ allResults = << >>
    /\ offerIdx = 0
    /\ batIdx = 0
    /\ sorted = << >>
    /\ queries = << >>
    /\ energyPrices = << >>
    /\ resolverCalls = 0
    /\ pvpcCache = {}
    /\ api = NoApi

BillIdle ==
    /\ bill = NoBill
    /\ billArgs = NoBill

Init ==
    /\ pc = "hourly"
    /\ battery \in Batteries
    /\ offer \in Offers
    /\ batteryLevel = 0
    /\ hourlyResults = << >>
    /\ monthlyBreakdown = << >>
    /\ virtualBatteryBalance = 0
    /\ passStart = 0
    /\ passes = 0
    /\ i = 0
    /\ result = NoResult
    /\ BillIdle
    /\ TariffIdle
    /\ BatchIdle
    /\ SolarIdle

\* one iteration of the loop over the sorted consumption records
ProcessHour ==
    /\ pc = "hourly"
    /\ Len(hourlyResults) < MaxHours
    /\ \E k \in DOMAIN RunSlots, consumptionKwh \in ConsumptionValues,
          solarProduction \in ProductionValues :
        /\ k > lastSlot(hourlyResults)
        /\ LET hr == simulateHour(batteryLevel, battery, offer, RunSchedule,
                                  RunPowerSchedule, RunSlots[k].date, RunSlots[k].hour,
                                  consumptionKwh, solarProduction)
           IN /\ hourlyResults' = Append(hourlyResults, hr)
              /\ batteryLevel' = hr.batteryLevel
    /\ UNCHANGED << pc, battery, offer, monthlyBreakdown, virtualBatteryBalance,
                    passStart, passes, i, result, billVars, tariffVars, batchVars, solarVars >>

\* the hourly loop is over: runBillingPass(0), and the return when the offer
\* has no virtual battery
FirstBillingPass ==
    /\ pc = "hourly"
    /\ LET out == runBillingPass(hourlyResults, offer, 0)
       IN /\ monthlyBreakdown' = out.breakdown
          /\ virtualBatteryBalance' = out.endBalance
          /\ IF offer.hasVirtualBattery
             THEN pc' = "iterate" /\ result' = result
             ELSE /\ pc' = "done"
                  /\ result' = simulationResult(hourlyResults, out.breakdown, out.endBalance)
    /\ passStart' = 0
    /\ passes' = 1
    /\ i' = 0
    /\ UNCHANGED << battery, offer, batteryLevel, hourlyResults, billVars, tariffVars,
                    batchVars, solarVars >>

\* one iteration of the convergence loop, with its break and the return
IteratePass ==
    /\ pc = "iterate"
    /\ loopContinues(i)
    /\ LET prev == virtualBatteryBalance
           out  == runBillingPass(hourlyResults, offer, prev)
       IN /\ monthlyBreakdown' = out.breakdown
          /\ virtualBatteryBalance' = out.endBalance
          /\ passStart' = prev
          /\ IF converged(out.endBalance, prev)
             THEN /\ pc' = "done"
                  /\ i' = i
                  /\ result' = simulationResult(hourlyResults, out.breakdown, out.endBalance)
             ELSE /\ pc' = "iterate"
                  /\ i' = i + 1
                  /\ result' = result
    /\ passes' = passes + 1
    /\ UNCHANGED << battery, offer, batteryLevel, hourlyResults, billVars, tariffVars,
                    batchVars, solarVars >>

\* the loop condition i < 10 fails: the return after the last pass
LoopExhausted ==
    /\ pc = "iterate"
    /\ ~loopContinues(i)
    /\ pc' = "done"
    /\ result' = simulationResult(hourlyResults, monthlyBreakdown, virtualBatteryBalance)
    /\ UNCHANGED << battery, offer, batteryLevel, hourlyResults, monthlyBreakdown,
                    virtualBatteryBalance, passStart, passes, i, billVars, tariffVars,
                    batchVars, solarVars >>

Next == ProcessHour \/ FirstBillingPass \/ IteratePass \/ LoopExhausted

Spec == Init /\ [][Next]_vars

----------------------------------------------------------------------------
(* calculateBill called on its own *)

BillDates == { Date(2025, 3, 1), Date(2025, 3, 2) }

\* an hourly result with the fields calculateBill reads
BillHour(date, energyCost, powerTermCost, surplusValue) ==
    [date |-> date, hour |-> 1, consumption |-> 0, solarProduction |-> 0,
     batteryCharge |-> 0, batteryLoss |-> 0, batteryLevel |-> 0,
     gridPurchase |-> 0, gridSurplus |-> 0, tariffPeriod |-> "flat",
     energyPrice |-> 0, powerTermCost |-> powerTermCost, powerTermPrice |-> 0,
     energyCost |-> energyCost, surplusValue |-> surplusValue]

BillHours ==
    { BillHour(date, flows[1], power, flows[2]) :
        date \in BillDates,
        flows \in { << 100 * Mil, 0 >>, << 0, 150 * Mil >>, << 0, 5 * Mil >> },
        power \in { 0, 15 * Mil } }

StartBalances == { 0, 100 * Mil, Euro }

RunIdle ==
    /\ pc = "idle"
    /\ battery = NoBattery
    /\ batteryLevel = 0
    /\ hourlyResults = << >>
    /\ monthlyBreakdown = << >>
    /\ virtualBatteryBalance = 0
    /\ passStart = 0
    /\ passes = 0
    /\ i = 0
    /\ result = NoResult

BillInit ==
    /\ RunIdle
    /\ offer \in Offers
    /\ BillIdle
    /\ TariffIdle
    /\ BatchIdle
    /\ SolarIdle

\* one call of the pure function per behaviour
CallCalculateBill ==
    /\ bill = NoBill
    /\ \E hrs \in SeqsUpTo(BillHours, MaxMonthHours), balance \in StartBalances :
        /\ bill' = [called |-> TRUE] @@ calculateBill(hrs, offer, balance)
        /\ billArgs' = [called |-> TRUE, hourlyResults |-> hrs, balance |-> balance]
    /\ UNCHANGED << runVars, tariffVars, batchVars, solarVars >>

BillNext == CallCalculateBill

BillSpec == BillInit /\ [][BillNext]_vars

----------------------------------------------------------------------------
(* The schedule editor and the resolver as a state machine *)

TariffSpecInit ==
    /\ RunIdle
    /\ offer = Offer(FALSE, "unset", 50, FALSE)
    /\ BillIdle
    /\ TariffInit
    /\ BatchIdle
    /\ SolarIdle

TariffNext == EditSchedule \/ ResolveDay

TariffSpec == TariffSpecInit /\ [][TariffNext]_vars

----------------------------------------------------------------------------
(* calculateShadowFactor: lengths in centimetres, angles in whole degrees *)

\* number of obstacles of a panel group
MaxObstacles == 2

\* the groups of fetched production of an installation
MaxGroupData == 2

\* a JavaScript number that is a fraction num/den in lowest terms, den > 0;
\* the operations take their operands as values ("v" below), computed once
RECURSIVE GCD(_, _)
GCD(a, b) ==
    IF b = 0 THEN a ELSE CHOOSE g \in { GCD(b, r) : r \in { a % b } } : TRUE

Rat(n, d) ==
    CHOOSE q \in
      { [nan |-> FALSE, num |-> ((IF v[2] < 0 THEN -1 ELSE 1) * v[1]) \div g,
                        den |-> ((IF v[2] < 0 THEN -1 ELSE 1) * v[2]) \div g] :
        v \in { << n, d >> }, g \in { GCD(Abs(n), Abs(d)) } } : TRUE

\* the JavaScript number NaN
NaN == [nan |-> TRUE]

\* x * y of two JavaScript numbers
RatMul(x, y) ==
    CHOOSE q \in
      { IF v[1].nan \/ v[2].nan THEN NaN
        ELSE Rat(v[1].num * v[2].num, v[1].den * v[2].den) : v \in { << x, y >> } } : TRUE

\* the remainder operator %, which takes the sign of the dividend
JsRem(x, m) == IF x >= 0 THEN x % m ELSE -((-x) % m)

DIRECTION_AZIMUTH == [north |-> 0, east |-> 90, south |-> 180, west |-> 270]

angleDifference(a, b) == Abs(JsRem(a - b + 540, 360) - 180)

NoSun == [up |-> FALSE]
Sun(tanHalves, azimuth) == [up |-> TRUE, tanHalves |-> tanHalves, azimuth |-> azimuth]

\* getSunPosition for the modelled hours, months and latitudes (in hundredths
\* of a degree): null when the sun is below the horizon, else the azimuth to
\* the nearest 15 degrees and the tangent of the elevation in halves
getSunPosition(hour, month, latitude) ==
    CASE latitude = 3739 /\ month = 1 /\ hour = 10 -> Sun(1, 135)
      [] latitude = 3739 /\ month = 1 /\ hour = 12 -> Sun(1, 165)
      [] latitude = 3739 /\ month = 1 /\ hour = 15 -> Sun(1, 225)
      [] latitude = 3739 /\ month = 6 /\ hour = 10 -> Sun(3, 105)
      [] latitude = 3739 /\ month = 6 /\ hour = 12 -> Sun(7, 150)
      [] latitude = 3739 /\ month = 6 /\ hour = 15 -> Sun(3, 255)
      [] latitude = -9000 /\ month = 1 /\ hour = 5 -> Sun(1, 90)
      [] latitude = -9000 /\ month = 1 /\ hour = 10 -> Sun(1, 15)
      [] latitude = -9000 /\ month = 1 /\ hour = 12 -> Sun(1, 15)
      [] latitude = -9000 /\ month = 1 /\ hour = 15 -> Sun(1, 345)
      [] OTHER -> NoSun

\* Math.cos of a multiple of 15 degrees, in hundredths
cosPercent(deg) ==
    CASE deg = 0 -> 100 [] deg = 15 -> 97 [] deg = 30 -> 87 [] deg = 45 -> 71
      [] deg = 60 -> 50 [] deg = 75 -> 26 [] deg = 90 -> 0

\* Math.cos(panelTiltDeg * DEG) in halves
cosTiltHalves(tilt) == CASE tilt = 0 -> 2 [] tilt = 60 -> 1 [] tilt = 120 -> -1

\* Math.atan(widthM / 2 / distance) in degrees, for an obstacle as wide as
\* twice its distance
atanDeg(num, den) == CASE num = den -> 45

\* obstacle.azimuthDeg, or the azimuth of the legacy direction ('south' when
\* that is missing too)
obstacleAzimuthOf(obstacle) ==
    IF "azimuthDeg" \in DOMAIN obstacle THEN obstacle.azimuthDeg
    ELSE IF "direction" \in DOMAIN obstacle THEN DIRECTION_AZIMUTH[obstacle.direction]
    ELSE DIRECTION_AZIMUTH["south"]

\* the half-width of the obstacle's angular window
halfWidthOf(obstacle) ==
    IF obstacle.widthM > 0 /\ obstacle.distance > 0
    THEN atanDeg(obstacle.widthM, 2 * obstacle.distance)
    ELSE IF "angularWidthDeg" \in DOMAIN obstacle THEN obstacle.angularWidthDeg \div 2
    ELSE 45

\* obstacle.height - obstacle.distance * Math.tan(sun.elevation * DEG)
shadowHeightOf(obstacle, sun) == obstacle.height - (obstacle.distance * sun.tanHalves) \div 2

\* the shaded fraction without the clamp to [0, 1]
shadeFractionUnclamped(hShadow, panelHeight, verticalHalves) ==
    IF verticalHalves = 0 THEN Rat(1, 1)
    ELSE Rat(2 * (hShadow - panelHeight), verticalHalves)

\* panelHeightVertical === 0 ? 1 : Math.min(1, Math.max(0, (H_shadow -
\* panelHeight) / panelHeightVertical)), the vertical extent given in halves
shadeFractionOf(hShadow, panelHeight, verticalHalves) ==
    IF verticalHalves = 0 THEN Rat(1, 1)
    ELSE LET q == Rat(2 * (hShadow - panelHeight), verticalHalves)
         IN IF q.num <= 0 THEN Rat(0, 1)
            ELSE IF q.num >= q.den THEN Rat(1, 1)
            ELSE q

\* Math.cos((azDiff / halfWidth) * (Math.PI / 2)); it is evaluated only for
\* azDiff <= halfWidth, so a zero halfWidth divides 0 by 0
angularFactorOf(azDiff, halfWidth) ==
    IF halfWidth = 0 THEN NaN
    ELSE Rat(cosPercent((azDiff * 90) \div halfWidth), 100)

\* the percentage of the shade an obstacle keeps: all of it when solid, else
\* 100 - (transparencyPercent ?? 50)
opacityPercentOf(obstacle) ==
    IF obstacle.type = "solid" THEN 100
    ELSE IF "transparencyPercent" \in DOMAIN obstacle
         THEN 100 - obstacle.transparencyPercent
         ELSE 50

\* 1 - shadeFraction * angularFactor * (1 - transparency)
obstacleFactorOf(shade, angular, opacityPercent) ==
    IF angular.nan THEN NaN
    ELSE Rat(shade.den * angular.den * 100 - shade.num * angular.num * opacityPercent,
             shade.den * angular.den * 100)

\* the loop over the obstacles from position k on
RECURSIVE shadowLoop(_, _, _, _, _, _)
shadowLoop(obstacles, sun, panelHeight, verticalHalves, k, factor) ==
    IF k > Len(obstacles) THEN factor
    ELSE LET obstacle  == obstacles[k]
             halfWidth == halfWidthOf(obstacle)
             azDiff    == angleDifference(sun.azimuth, obstacleAzimuthOf(obstacle))
             hShadow   == shadowHeightOf(obstacle, sun)
             next      ==
                 IF obstacle.distance <= 0 THEN factor
                 ELSE IF azDiff > halfWidth THEN factor
                 ELSE IF hShadow <= panelHeight THEN factor
                 ELSE RatMul(factor,
                             obstacleFactorOf(shadeFractionOf(hShadow, panelHeight,
                                                              verticalHalves),
                                              angularFactorOf(azDiff, halfWidth),
                                              opacityPercentOf(obstacle)))
         IN shadowLoop(obstacles, sun, panelHeight, verticalHalves, k + 1, next)

calculateShadowFactor(obstacles, hour, month, latitude, panelHeight, panelPhysicalHeightM, panelTiltDeg) ==
    IF Len(obstacles) = 0 THEN Rat(1, 1)
    ELSE LET sun == getSunPosition(hour, month, latitude)
         IN IF ~sun.up THEN Rat(1, 1)
            ELSE shadowLoop(obstacles, sun, panelHeight,
                            panelPhysicalHeightM * cosTiltHalves(panelTiltDeg), 1, Rat(1, 1))

\* obstacles as the editor writes them and as an imported backup may hold them
Obstacle(type, height, azimuthDeg, widthM, distance) ==
    [type |-> type, height |-> height, azimuthDeg |-> azimuthDeg, widthM |-> widthM,
     distance |-> distance]

\* a record with one more field
WithField(rec, name, value) ==
    [f \in DOMAIN rec \cup {name} |-> IF f = name THEN value ELSE rec[f]]

\* a record without one of its fields
WithoutField(rec, name) == [f \in DOMAIN rec \ {name} |-> rec[f]]

ObstacleChoices ==
    { Obstacle("solid", 300, 165, 800, 400),
      Obstacle("transparent", 500, 135, 800, 400),
      WithField(Obstacle("transparent", 500, 150, 800, 400), "transparencyPercent", 150),
      WithField(Obstacle("transparent", 500, 165, 0, 400), "transparencyPercent", 100),
      WithField(WithField(WithoutField(Obstacle("solid", 500, 0, 0, 400), "azimuthDeg"),
                          "direction", "east"), "angularWidthDeg", 0),
      WithField(WithoutField(Obstacle("solid", 300, 0, 0, 400), "azimuthDeg"),
                "angularWidthDeg", 60),
      Obstacle("solid", 300, 165, 800, 0) }

ShadowHours      == { 5, 10, 12, 15 }
ShadowMonths     == { 1, 6 }
Latitudes        == { 3739, -9000 }
PanelHeights     == { 0, 100 }
PanelTiltHeights == { 0, 200 }
PanelTilts       == { 0, 60, 120 }

ShadowArgs(obstacles, hour, month, latitude, panelHeight, panelPhysicalHeightM, panelTiltDeg) ==
    [called |-> TRUE, obstacles |-> obstacles, hour |-> hour, month |-> month,
     latitude |-> latitude, panelHeight |-> panelHeight,
     panelPhysicalHeightM |-> panelPhysicalHeightM, panelTiltDeg |-> panelTiltDeg]

\* one call of the pure function per behaviour
CalculateShadowFactor ==
    /\ shadowArgs = NoShadowCall
    /\ solarInstallation = NoInstallationBuilt
    /\ \E obstacles \in SeqsUpTo(ObstacleChoices, MaxObstacles), hour \in ShadowHours,
          month \in ShadowMonths, latitude \in Latitudes, panelHeight \in PanelHeights,
          panelPhysicalHeightM \in PanelTiltHeights, panelTiltDeg \in PanelTilts :
        /\ shadowArgs' = ShadowArgs(obstacles, hour, month, latitude, panelHeight,
                                    panelPhysicalHeightM, panelTiltDeg)
        /\ shadowFactor' = calculateShadowFactor(obstacles, hour, month, latitude,
                                                 panelHeight, panelPhysicalHeightM,
                                                 panelTiltDeg)
    /\ UNCHANGED << solarInstallation, groupTotals, runVars, billVars, tariffVars,
                    batchVars >>

----------------------------------------------------------------------------
(* The energy-price resolvers and the market-price cache *)

\* record.prices of a day of the market: 24 prices in mils per kWh, the price
\* of clock hour h (0..23) at position h + 1
pvpcDailyPrices(date) == [k \in 1..24 |-> 100 + (k - 1)]

\* ensurePvpcCached: the dates missing from the table are fetched and what the
\* API returns is stored; a failed fetch throws
ensurePvpcCached(dates, cache, market) ==
    LET missing == dates \ cache
    IN IF missing = {} THEN [ok |-> TRUE, cache |-> cache]
       ELSE IF ~market.up THEN [ok |-> FALSE, cache |-> cache]
       ELSE [ok |-> TRUE, cache |-> cache \cup (missing \cap market.marketDates)]

\* loadPvpcPrices: the map from << date, clock hour >> to the price, for the
\* dates of the query that the table holds
loadPvpcPrices(dates, cache) ==
    [key \in { << d, h >> : d \in dates \cap cache, h \in 0..23 } |->
        pvpcDailyPrices(key[1])[key[2] + 1]]

\* the market price looked up under the hour 1..24 itself
pvpcPriceOfHourKey(priceMap, date, hour) ==
    IF << date, hour >> \in DOMAIN priceMap THEN priceMap[<< date, hour >>] ELSE 0

\* priceMap.get(key) of clock hour hour - 1, 0 when undefined
pvpcPriceOf(priceMap, date, hour) ==
    LET h == hour - 1
    IN IF << date, h >> \in DOMAIN priceMap THEN priceMap[<< date, h >>] ELSE 0

\* the resolver createEnergyPriceResolver returns, applied to the queries:
\* whether it fulfils, the table afterwards and the prices returned
createEnergyPriceResolver(off, sched, qs, cache, market) ==
    IF off.usePvpcPrices
    THEN LET dates   == { qs[k].date : k \in DOMAIN qs }
             ensured == ensurePvpcCached(dates, cache, market)
             priceMap == loadPvpcPrices(dates, ensured.cache)
         IN IF ensured.ok
            THEN [ok |-> TRUE, cache |-> ensured.cache,
                  prices |-> [k \in DOMAIN qs |->
                                 pvpcPriceOf(priceMap, qs[k].date, qs[k].hour)]]
            ELSE [ok |-> FALSE, cache |-> ensured.cache, prices |-> << >>]
    ELSE [ok |-> TRUE, cache |-> cache,
          prices |-> [k \in DOMAIN qs |->
                         scheduleEnergyPrice(off, sched, qs[k].date, qs[k].hour)]]

----------------------------------------------------------------------------
(* runSimulation between its suspension points *)

\* date then hour, the order of the comparator of sort
recordKey(r) == ((r.date.y * 100 + r.date.m) * 100 + r.date.d) * 100 + r.hour

\* the records in the order they came
sortConsumptionAsGiven(consumption) == consumption

\* [...consumption].sort(...): records of distinct (date, hour) in ascending order
sortConsumption(consumption) ==
    LET keys == SortedSeqOf({ recordKey(consumption[k]) : k \in DOMAIN consumption })
    IN [j \in DOMAIN keys |->
          consumption[CHOOSE k \in DOMAIN consumption : recordKey(consumption[k]) = keys[j]]]

\* the caller's array sorted in place
consumptionSortedInPlace(consumption) == sortConsumption(consumption)

\* the caller's array after the call: the sort works on a copy
consumptionAfterSort(consumption) == consumption

\* the queries built from the caller's array as it came
queriesOfUnsorted(consumption, sortedRecords) ==
    [k \in DOMAIN consumption |->
        [date |-> consumption[k].date, hour |-> consumption[k].hour]]

\* sorted.map((r) => ({ date: r.date, hour: r.hour }))
queriesOf(consumption, sortedRecords) ==
    [k \in DOMAIN sortedRecords |->
        [date |-> sortedRecords[k].date, hour |-> sortedRecords[k].hour]]

\* the level a call starts from, kept from the call before
initialBatteryLevelCarried(previous) == previous

\* let batteryLevel = 0
initialBatteryLevel(previous) == 0

\* x + y and x / y of two JavaScript numbers; no divisor of the program is 0
RatAdd(x, y) ==
    CHOOSE q \in
      { IF v[1].nan \/ v[2].nan THEN NaN
        ELSE Rat(v[1].num * v[2].den + v[2].num * v[1].den, v[1].den * v[2].den) :
        v \in { << x, y >> } } : TRUE

RatDiv(x, y) ==
    CHOOSE q \in
      { IF v[1].nan \/ v[2].nan \/ v[2].num = 0 THEN NaN
        ELSE Rat(v[1].num * v[2].den, v[1].den * v[2].num) : v \in { << x, y >> } } : TRUE

\* Math.max(0, x), which is NaN for NaN
MathMaxZero(x) ==
    CHOOSE q \in
      { IF v.nan THEN NaN ELSE IF v.num < 0 THEN Rat(0, 1) ELSE v : v \in { x } } : TRUE

PVGIS_DAYS_IN_MONTH == << 31, 28, 31, 30, 31, 30, 31, 31, 30, 31, 30, 31 >>

daysInMonth(year, month) ==
    IF month = 2 /\ (year % 4 = 0 /\ (year % 100 # 0 \/ year % 400 = 0)) THEN 29
    ELSE PVGIS_DAYS_IN_MONTH[month]

\* new Date(year, month - 1, last).getDay() is the weekday of that date
lastSunday(year, month) ==
    daysInMonth(year, month) - getUTCDay(Date(year, month, daysInMonth(year, month)))

spainOffset(year, month, day, utcHour) ==
    IF month >= 4 /\ month <= 9 THEN 2
    ELSE IF month <= 2 \/ month >= 11 THEN 1
    ELSE IF month = 3
    THEN (IF day < lastSunday(year, 3) THEN 1
          ELSE IF day > lastSunday(year, 3) THEN 2
          ELSE IF utcHour < 1 THEN 1 ELSE 2)
    ELSE (IF day < lastSunday(year, 10) THEN 2
          ELSE IF day > lastSunday(year, 10) THEN 1
          ELSE IF utcHour < 1 THEN 2 ELSE 1)

\* "YYYYMMDD:HHMM", a time in UTC
PvgisTime(year, month, day, hh, min) ==
    [year |-> year, month |-> month, day |-> day, hh |-> hh, min |-> min]

parsePVGISTime(time) ==
    LET utcHour == IF time.min >= 30 THEN time.hh + 1 ELSE time.hh
        sum     == utcHour + spainOffset(time.year, time.month, time.day, utcHour)
        over    == sum >= 24
        nextDay == time.day + 1
        rolls   == over /\ nextDay > daysInMonth(time.year, time.month)
    IN [month   |-> IF rolls THEN (IF time.month = 12 THEN 1 ELSE time.month + 1)
                    ELSE time.month,
        day     |-> IF rolls THEN 1 ELSE IF over THEN nextDay ELSE time.day,
        hour    |-> (IF over THEN sum - 24 ELSE sum) + 1,
        utcHour |-> utcHour]

\* installation.panelGroups.find((g) => g.name === groupData.groupName)
NoGroup == [found |-> FALSE]

findGroup(installation, groupName) ==
    LET hits == { k \in DOMAIN installation.panelGroups :
                    installation.panelGroups[k].name = groupName }
    IN IF hits = {} THEN NoGroup
       ELSE installation.panelGroups[CHOOSE k \in hits : \A j \in hits : k <= j]

\* (group?.peakPowerWp ?? 0) / 1000
currentPeakKwOf(group) == Rat(IF group.found THEN group.peakPowerWp ELSE 0, 1000)

\* groupData.fetchParams?.peakPowerKw ?? currentPeakKw
storedPeakKwOf(group, groupData) ==
    IF groupData.fetchParams.stored THEN groupData.fetchParams.peakPowerKw
    ELSE currentPeakKwOf(group)

peakPowerScaleOf(group, groupData) ==
    IF storedPeakKwOf(group, groupData).num > 0
    THEN RatDiv(currentPeakKwOf(group), storedPeakKwOf(group, groupData))
    ELSE Rat(1, 1)

\* the parameters of the fetch that differ from the group's and the
\* installation's now: they are logged as a warning
staleOf(installation, group, groupData) ==
    IF group.found /\ groupData.fetchParams.stored
    THEN (IF groupData.fetchParams.tilt # group.tilt THEN {"tilt"} ELSE {})
         \cup (IF groupData.fetchParams.azimuth # group.azimuth THEN {"azimuth"} ELSE {})
         \cup (IF groupData.fetchParams.systemLoss # installation.systemLoss
               THEN {"loss"} ELSE {})
    ELSE {}

\* the groups whose data console.warn reports as stale
staleWarnings(installation) ==
    IF ~installation.hasPvgisData THEN {}
    ELSE { installation.pvgisData[g].groupName : g \in
             { k \in DOMAIN installation.pvgisData :
                 staleOf(installation,
                         findGroup(installation, installation.pvgisData[k].groupName),
                         installation.pvgisData[k]) # {} } }

\* the key MM-DD-HH of a record, in local time
solarKeyOf(record) ==
    << parsePVGISTime(record.time).month, parsePVGISTime(record.time).day,
       parsePVGISTime(record.time).hour >>

\* the shadow factor of a record: the sun at the UTC hour, the month local
shadowFactorOf(installation, group, record) ==
    calculateShadowFactor(IF group.found THEN group.obstacles ELSE << >>,
                          parsePVGISTime(record.time).utcHour,
                          parsePVGISTime(record.time).month,
                          installation.latitude,
                          IF group.found THEN group.heightFromGround ELSE 0,
                          IF ~group.found THEN 0
                          ELSE IF group.panelOrientation = "landscape"
                          THEN group.panelWidthCm ELSE group.panelHeightCm,
                          IF group.found THEN group.tilt ELSE 30)

\* Math.max(0, (record.P / 1000) * peakPowerScale * shadowFactor)
kwhThisHourOf(installation, group, groupData, record) ==
    MathMaxZero(RatMul(RatMul(Rat(record.P, 1000), peakPowerScaleOf(group, groupData)),
                       shadowFactorOf(installation, group, record)))

\* sums[key] after the first k records of the group
RECURSIVE sumsOf(_, _, _, _, _)
sumsOf(installation, group, groupData, key, k) ==
    IF k = 0 THEN Rat(0, 1)
    ELSE IF solarKeyOf(groupData.hourlyData[k]) = key
    THEN RatAdd(sumsOf(installation, group, groupData, key, k - 1),
                kwhThisHourOf(installation, group, groupData, groupData.hourlyData[k]))
    ELSE sumsOf(installation, group, groupData, key, k - 1)

\* counts[key] after all records of the group
countsOf(groupData, key) ==
    Cardinality({ k \in DOMAIN groupData.hourlyData :
                    solarKeyOf(groupData.hourlyData[k]) = key })

\* the mean of a key taken as the sum of its samples
groupAverageUndivided(installation, groupData, key) ==
    sumsOf(installation, findGroup(installation, groupData.groupName), groupData, key,
           Len(groupData.hourlyData))

\* sums[key] / counts[key]
groupAverageOf(installation, groupData, key) ==
    RatDiv(sumsOf(installation, findGroup(installation, groupData.groupName), groupData,
                  key, Len(groupData.hourlyData)),
           Rat(countsOf(groupData, key), 1))

\* groupTotals[key] after the first g groups of pvgisData
RECURSIVE groupTotalsOf(_, _, _)
groupTotalsOf(installation, key, g) ==
    IF g = 0 THEN Rat(0, 1)
    ELSE IF countsOf(installation.pvgisData[g], key) > 0
    THEN RatAdd(groupTotalsOf(installation, key, g - 1),
                groupAverageOf(installation, installation.pvgisData[g], key))
    ELSE groupTotalsOf(installation, key, g - 1)

\* buildSolarIndex: {} without pvgisData, else the kWh of every key
\* << month, day, hour >> some record of some group maps to
buildSolarIndex(installation) ==
    IF ~installation.hasPvgisData THEN << >>
    ELSE [ key \in UNION { { solarKeyOf(installation.pvgisData[g].hourlyData[k]) :
                               k \in DOMAIN installation.pvgisData[g].hourlyData } :
                           g \in DOMAIN installation.pvgisData }
           |-> groupTotalsOf(installation, key, Len(installation.pvgisData)) ]

\* solarIndex[solarKey] ?? 0, from kWh to the units of energy of the loop
solarProductionOf(solarIndex, date, hour) ==
    IF << date.m, date.d, hour >> \in DOMAIN solarIndex
    THEN (solarIndex[<< date.m, date.d, hour >>].num * EnergyScale)
            \div solarIndex[<< date.m, date.d, hour >>].den
    ELSE 0

\* the hourly loop from record k on
RECURSIVE hourlyLoop(_, _, _, _, _, _, _, _, _, _)
hourlyLoop(recs, prices, solarIndex, bat, off, sched, powerSched, k, level, hrs) ==
    IF k > Len(recs) THEN [hourlyResults |-> hrs, batteryLevel |-> level]
    ELSE CHOOSE ret \in
           { hourlyLoop(recs, prices, solarIndex, bat, off, sched, powerSched, k + 1,
                        hr.batteryLevel, Append(hrs, hr)) :
             hr \in { hourlyResultOf(level, bat, off, sched, powerSched, recs[k].date,
                                     recs[k].hour, recs[k].kwh,
                                     solarProductionOf(solarIndex, recs[k].date,
                                                       recs[k].hour),
                                     prices[k]) } } : TRUE

\* the convergence loop from iteration n on, count passes made so far
RECURSIVE convergenceLoop(_, _, _, _, _, _)
convergenceLoop(hrs, off, n, breakdown, balance, count) ==
    IF ~loopContinues(n)
    THEN [breakdown |-> breakdown, endBalance |-> balance, passes |-> count]
    ELSE CHOOSE ret \in
           { IF converged(out.endBalance, balance)
             THEN [breakdown |-> out.breakdown, endBalance |-> out.endBalance,
                   passes |-> count + 1]
             ELSE convergenceLoop(hrs, off, n + 1, out.breakdown, out.endBalance, count + 1) :
             out \in { runBillingPass(hrs, off, balance) } } : TRUE

\* runBillingPass(0) and, for an offer with virtual battery, the loop
billingOf(hrs, off) ==
    LET first == runBillingPass(hrs, off, 0)
    IN IF off.hasVirtualBattery
       THEN convergenceLoop(hrs, off, 0, first.breakdown, first.endBalance, 1)
       ELSE [breakdown |-> first.breakdown, endBalance |-> first.endBalance, passes |-> 1]

----------------------------------------------------------------------------
(* handleRun: inputs *)

\* number of offers selected for one batch
MaxBatchOffers == 2

\* the table tariffSchedules by id
JanuarySchedule == CustomSchedule(<< DateRange(1, 1, 1, 31, "same", "", BrokenSlots) >>)
TariffSchedules == << Schedule20TD, JanuarySchedule >>

\* tariffSchedules?.find((s) => s.id === id) ?? null
scheduleById(id) == IF id \in DOMAIN TariffSchedules THEN TariffSchedules[id] ELSE NullSchedule

scheduleOfOffer(off) == scheduleById(off.tariffScheduleId)

\* the power schedule, the energy schedule when the offer names none (id 0) or
\* names one that is not in the table
powerScheduleOfOffer(off) ==
    IF off.powerTariffScheduleId # 0
    THEN IF off.powerTariffScheduleId \in DOMAIN TariffSchedules
         THEN TariffSchedules[off.powerTariffScheduleId]
         ELSE scheduleOfOffer(off)
    ELSE scheduleOfOffer(off)

\* an offer with the ids of its schedules
WithSchedules(off, tariffScheduleId, powerTariffScheduleId) ==
    [f \in DOMAIN off \cup {"tariffScheduleId", "powerTariffScheduleId"} |->
        IF f = "tariffScheduleId" THEN tariffScheduleId
        ELSE IF f = "powerTariffScheduleId" THEN powerTariffScheduleId
        ELSE off[f]]

\* a 2.0TD offer with virtual battery and fixed charges
HouseOffer == WithSchedules(Offer(TRUE, "unset", 50, TRUE), 1, 0)

\* an offer on the January schedule that prices only valle, whose power prices
\* and contracted power name only punta, and whose power schedule id is dangling
SparseOffer ==
    WithSchedules([Offer(FALSE, "true", 50, TRUE) EXCEPT
                      !.prices = [valle |-> 100],
                      !.powerPrices = [punta |-> 90],
                      !.contractedPowerIsNumber = FALSE,
                      !.contractedPowerByPeriod = [punta |-> 4]], 2, 9)

\* a live-market offer on the January schedule
PvpcOffer ==
    WithSchedules([Offer(FALSE, "true", 50, TRUE) EXCEPT
                      !.usePvpcPrices = TRUE], 2, 0)

BatchOffers == { HouseOffer, SparseOffer, PvpcOffer }

ConsumptionRecord(date, hour, kwh) == [date |-> date, hour |-> hour, kwh |-> kwh]

\* consumption sets, in the order of their files
SetA == << ConsumptionRecord(Date(2025, 2, 1), 12, Kwh(2)),
           ConsumptionRecord(Date(2025, 1, 31), 12, Kwh(2)),
           ConsumptionRecord(Date(2025, 1, 31), 5, Kwh(2)) >>
SetB == << ConsumptionRecord(Date(2025, 1, 31), 12, Kwh(0)),
           ConsumptionRecord(Date(2025, 1, 31), 24, Kwh(2)) >>
SetEmpty == << >>

SelectedSetsChoices == { << >>, << SetEmpty >>, << SetA >>, << SetB >>, << SetA, SetB >> }

\* recordMap.set(key, r) over the records of the sets in order, and the values
\* in insertion order: a later record replaces an earlier one of the same
\* date and hour in its place
RECURSIVE mergeInto(_, _, _)
mergeInto(merged, recs, k) ==
    IF k > Len(recs) THEN merged
    ELSE LET r == recs[k]
             at == { j \in DOMAIN merged : merged[j].date = r.date /\ merged[j].hour = r.hour }
         IN mergeInto(IF at = {} THEN Append(merged, r)
                      ELSE [merged EXCEPT ![CHOOSE j \in at : TRUE] = r],
                      recs, k + 1)

RECURSIVE mergeSets(_, _, _)
mergeSets(merged, sets, k) ==
    IF k > Len(sets) THEN merged
    ELSE mergeSets(mergeInto(merged, sets[k], 1), sets, k + 1)

HourlyRecord(time, P) == [time |-> time, P |-> P]

NoFetchParams == [stored |-> FALSE]

FetchParams(peakPowerKw, tilt, azimuth, systemLoss) ==
    [stored |-> TRUE, peakPowerKw |-> peakPowerKw, tilt |-> tilt, azimuth |-> azimuth,
     systemLoss |-> systemLoss]

GroupData(groupName, hourlyData, fetchParams) ==
    [groupName |-> groupName, hourlyData |-> hourlyData, fetchParams |-> fetchParams]

PanelGroup(name, peakPowerWp, panelOrientation, tilt, azimuth, heightFromGround, obstacles, panelWidthCm, panelHeightCm) ==
    [found |-> TRUE, name |-> name, peakPowerWp |-> peakPowerWp,
     panelOrientation |-> panelOrientation, tilt |-> tilt, azimuth |-> azimuth,
     heightFromGround |-> heightFromGround, obstacles |-> obstacles,
     panelWidthCm |-> panelWidthCm, panelHeightCm |-> panelHeightCm]

SolarInstallation(found, hasPvgisData, pvgisData, panelGroups, latitude, systemLoss) ==
    [found |-> found, hasPvgisData |-> hasPvgisData, pvgisData |-> pvgisData,
     panelGroups |-> panelGroups, latitude |-> latitude, systemLoss |-> systemLoss]

RoofGroup == PanelGroup("tejado", 3000, "portrait", 30, 0, 0, << >>, 100, 200)

NoInstallation == SolarInstallation(FALSE, FALSE, << >>, << >>, 3739, 14)
\* an installation whose production data was never fetched
BareInstallation == SolarInstallation(TRUE, FALSE, << >>, << RoofGroup >>, 3739, 14)
\* an installation producing 3 kWh at noon of the modelled days: the mean of
\* two years on 31 January, one year on 1 February
SunnyInstallation ==
    SolarInstallation(TRUE, TRUE,
        << GroupData("tejado",
                     << HourlyRecord(PvgisTime(2019, 1, 31, 10, 10), 2000),
                        HourlyRecord(PvgisTime(2019, 2, 1, 10, 10), 3000),
                        HourlyRecord(PvgisTime(2020, 1, 31, 10, 10), 4000) >>,
                     FetchParams(Rat(3, 1), 30, 0, 14)) >>,
        << RoofGroup >>, 3739, 14)

Installations == { NoInstallation, BareInstallation, SunnyInstallation }

BatteryChoices == { << >>, << Battery(2, 1000, 80) >> }

Selection(loaded, installation, sets, offers, includeNoBattery, bats) ==
    [clicked |-> TRUE, loaded |-> loaded, installation |-> installation,
     selectedSets |-> sets, selectedOffers |-> offers,
     includeNoBattery |-> includeNoBattery, selectedBats |-> bats]

Selections ==
    { Selection(TRUE, inst, sets, offers, nobat, bats) :
        inst \in Installations, sets \in SelectedSetsChoices,
        offers \in SeqsUpTo(BatchOffers, MaxBatchOffers),
        nobat \in BOOLEAN, bats \in BatteryChoices }
    \cup { Selection(FALSE, NoInstallation, << >>, << >>, FALSE, << >>) }

\* the market API: unreachable, or reachable with data for some days
Markets ==
    { [up |-> FALSE, marketDates |-> {}],
      [up |-> TRUE, marketDates |-> {}],
      [up |-> TRUE, marketDates |-> { Date(2025, 1, 31) }] }

InitialCaches == { {}, { Date(2025, 1, 31) } }

----------------------------------------------------------------------------
(* handleRun as a state machine *)

BatchInit ==
    /\ RunIdle
    /\ offer = Offer(FALSE, "unset", 50, FALSE)
    /\ BillIdle
    /\ TariffIdle
    /\ hpc = "idle"
    /\ running = FALSE
    /\ error = "null"
    /\ errorCount = 0
    /\ results = << >>
    /\ selection = NoSelection
    /\ mergedRecords = << >>
    /\ allResults = << >>
    /\ offerIdx = 0
    /\ batIdx = 0
    /\ sorted = << >>
    /\ queries = << >>
    /\ energyPrices = << >>
    /\ resolverCalls = 0
    /\ pvpcCache \in InitialCaches
    /\ api \in Markets
    /\ SolarIdle

\* the message handleRun's validation sets, "null" when the selection is valid
validationError(sel) ==
    IF ~sel.installation.found THEN "Selecciona una instalacion solar"
    ELSE IF Len(sel.selectedSets) = 0 THEN "Selecciona datos de consumo"
    ELSE IF Len(sel.selectedOffers) = 0 THEN "Selecciona al menos una oferta"
    ELSE IF ~sel.includeNoBattery /\ Len(sel.selectedBats) = 0
         THEN "Selecciona al menos una opcion de bateria"
    ELSE "null"

\* the first battery option of an offer: 0 is the run without battery
firstBatIdx(sel) == IF sel.includeNoBattery THEN 0 ELSE 1

\* a click on the run button, up to the start of the asynchronous batch
HandleRun ==
    /\ hpc = "idle"
    /\ ~running
    /\ selection = NoSelection
    /\ \E sel \in Selections :
        /\ selection' = sel
        /\ IF ~sel.loaded
           THEN UNCHANGED << hpc, running, error, errorCount, mergedRecords,
                             allResults, offerIdx, batIdx >>
           ELSE IF validationError(sel) # "null"
           THEN /\ error' = validationError(sel)
                /\ errorCount' = errorCount + 1
                /\ UNCHANGED << hpc, running, mergedRecords, allResults, offerIdx, batIdx >>
           ELSE /\ mergedRecords' = mergeSets(<< >>, sel.selectedSets, 1)
                /\ error' = "null"
                /\ running' = TRUE
                /\ allResults' = << >>
                /\ offerIdx' = 1
                /\ batIdx' = firstBatIdx(sel)
                /\ hpc' = "call"
                /\ UNCHANGED errorCount
    /\ UNCHANGED << results, sorted, queries, energyPrices, resolverCalls, pvpcCache, api,
                    runVars, billVars, tariffVars, solarVars >>

\* runSimulation is called for the next (offer, battery) and runs to the await
\* of the energy-price resolver
CallRunSimulation ==
    /\ hpc = "call"
    /\ offer' = selection.selectedOffers[offerIdx]
    /\ battery' = IF batIdx = 0 THEN NoBattery ELSE selection.selectedBats[batIdx]
    /\ hourlyResults' = << >>
    /\ batteryLevel' = initialBatteryLevel(batteryLevel)
    /\ mergedRecords' = consumptionAfterSort(mergedRecords)
    /\ \E ordered \in { sortConsumption(mergedRecords) } :
          /\ sorted' = ordered
          /\ queries' = queriesOf(mergedRecords, ordered)
    /\ resolverCalls' = 1
    /\ energyPrices' = << >>
    /\ monthlyBreakdown' = << >>
    /\ virtualBatteryBalance' = 0
    /\ passStart' = 0
    /\ passes' = 0
    /\ result' = NoResult
    /\ hpc' = "await"
    /\ UNCHANGED << pc, i, running, error, errorCount, results, selection, allResults,
                    offerIdx, batIdx, pvpcCache, api, billVars, tariffVars, solarVars >>

\* the resolver's promise fulfils with the prices
ResolverFulfils ==
    /\ hpc = "await"
    /\ \E out \in { createEnergyPriceResolver(offer, scheduleOfOffer(offer), queries,
                                               pvpcCache, api) } :
          /\ out.ok
          /\ energyPrices' = out.prices
          /\ pvpcCache' = out.cache
    /\ hpc' = "resolved"
    /\ UNCHANGED << running, error, errorCount, results, selection, mergedRecords,
                    allResults, offerIdx, batIdx, sorted, queries, resolverCalls, api,
                    runVars, billVars, tariffVars, solarVars >>

\* what the catch block leaves published, with the partial results published
resultsAfterFailurePartial(published, computed) == computed

\* what the catch block leaves published: setResults is not called
resultsAfterFailure(published, computed) == published

\* the rejection handled by the catch block alone, without the finally block
ResolverRejectsWithoutFinally ==
    /\ hpc = "await"
    /\ \E out \in { createEnergyPriceResolver(offer, scheduleOfOffer(offer), queries,
                                               pvpcCache, api) } :
          /\ ~out.ok
          /\ pvpcCache' = out.cache
    /\ error' = "PVPC API error"
    /\ errorCount' = errorCount + 1
    /\ results' = resultsAfterFailure(results, allResults)
    /\ hpc' = "idle"
    /\ UNCHANGED << running, selection, mergedRecords, allResults, offerIdx, batIdx,
                    sorted, queries, energyPrices, resolverCalls, api, runVars, billVars,
                    tariffVars, solarVars >>

\* the resolver's promise rejects: runSimulation rejects, and handleRun's catch
\* and finally blocks run
ResolverRejects ==
    /\ hpc = "await"
    /\ \E out \in { createEnergyPriceResolver(offer, scheduleOfOffer(offer), queries,
                                               pvpcCache, api) } :
          /\ ~out.ok
          /\ pvpcCache' = out.cache
    /\ error' = "PVPC API error"
    /\ errorCount' = errorCount + 1
    /\ results' = resultsAfterFailure(results, allResults)
    /\ running' = FALSE
    /\ hpc' = "idle"
    /\ UNCHANGED << selection, mergedRecords, allResults, offerIdx, batIdx, sorted,
                    queries, energyPrices, resolverCalls, api, runVars, billVars,
                    tariffVars, solarVars >>

\* the batch has no run after this one
lastRun(sel, o, b) == b >= Len(sel.selectedBats) /\ o >= Len(sel.selectedOffers)

\* runSimulation resumes with the prices: the hourly loop, the billing passes
\* and the return; handleRun pushes the result and goes on with the next
\* (offer, battery), or publishes the results after the last
CompleteRun ==
    /\ hpc = "resolved"
    /\ \E index \in { buildSolarIndex(selection.installation) } :
       \E loop \in { hourlyLoop(sorted, energyPrices, index, battery, offer,
                                  scheduleOfOffer(offer), powerScheduleOfOffer(offer), 1,
                                  batteryLevel, hourlyResults) } :
       \E billing \in { billingOf(loop.hourlyResults, offer) } :
       \E res \in { simulationResult(loop.hourlyResults, billing.breakdown,
                                     billing.endBalance) } :
       LET all == Append(allResults, res)
       IN /\ hourlyResults' = loop.hourlyResults
          /\ batteryLevel' = loop.batteryLevel
          /\ monthlyBreakdown' = billing.breakdown
          /\ virtualBatteryBalance' = billing.endBalance
          /\ passes' = billing.passes
          /\ result' = res
          /\ allResults' = all
          /\ IF lastRun(selection, offerIdx, batIdx)
             THEN /\ results' = all
                  /\ running' = FALSE
                  /\ hpc' = "idle"
                  /\ UNCHANGED << offerIdx, batIdx >>
             ELSE /\ IF batIdx < Len(selection.selectedBats)
                     THEN offerIdx' = offerIdx /\ batIdx' = batIdx + 1
                     ELSE offerIdx' = offerIdx + 1 /\ batIdx' = firstBatIdx(selection)
                  /\ hpc' = "call"
                  /\ UNCHANGED << results, running >>
    /\ UNCHANGED << pc, battery, offer, passStart, i, error, errorCount, selection,
                    mergedRecords, sorted, queries, energyPrices, resolverCalls,
                    pvpcCache, api, billVars, tariffVars, solarVars >>

BatchNext ==
    HandleRun \/ CallRunSimulation \/ ResolverFulfils \/ ResolverRejects \/ CompleteRun

BatchSpec == BatchInit /\ [][BatchNext]_vars

\* the batch under the scheduling of the event loop: an asynchronous function
\* that can go on does go on, and every awaited promise settles
BatchFairness ==
    /\ WF_vars(CallRunSimulation)
    /\ WF_vars(ResolverFulfils)
    /\ WF_vars(ResolverRejects)
    /\ WF_vars(CompleteRun)

BatchLiveSpec == BatchSpec /\ BatchFairness

----------------------------------------------------------------------------
(* The solar index as a state machine *)

SolarInit ==
    /\ RunIdle
    /\ offer = Offer(FALSE, "unset", 50, FALSE)
    /\ BillIdle
    /\ TariffIdle
    /\ BatchIdle
    /\ SolarIdle

\* the panel groups and the fetched production of the installations indexed
SouthGroup ==
    PanelGroup("sur", 4000, "portrait", 60, 0, 0,
               << WithField(Obstacle("transparent", 500, 135, 800, 400),
                            "transparencyPercent", 50) >>, 100, 200)

WestGroup == PanelGroup("oeste", 2000, "landscape", 0, 90, 100, << >>, 100, 200)

FetchChoices ==
    { NoFetchParams,
      FetchParams(Rat(4, 1), 60, 0, 14),
      FetchParams(Rat(2, 1), 60, 0, 14),
      FetchParams(Rat(1, 2), 30, 90, 10) }

\* noon of 15 January in two years, once more at 11:40, and a morning of June
SouthData(fetchParams) ==
    GroupData("sur",
              << HourlyRecord(PvgisTime(2019, 1, 15, 12, 10), 1000),
                 HourlyRecord(PvgisTime(2020, 1, 15, 12, 10), 3000),
                 HourlyRecord(PvgisTime(2020, 1, 15, 11, 40), 2000),
                 HourlyRecord(PvgisTime(2020, 6, 15, 10, 10), 2000) >>,
              fetchParams)

\* the same noon, the last hour of the year, and the nights the clocks change
WestData(fetchParams) ==
    GroupData("oeste",
              << HourlyRecord(PvgisTime(2020, 1, 15, 12, 10), 500),
                 HourlyRecord(PvgisTime(2020, 12, 31, 23, 10), 100),
                 HourlyRecord(PvgisTime(2020, 10, 25, 0, 10), 200),
                 HourlyRecord(PvgisTime(2020, 10, 25, 1, 10), 400),
                 HourlyRecord(PvgisTime(2020, 3, 29, 1, 10), 100) >>,
              fetchParams)

\* the production of a group that is no longer in the installation
OrphanData(fetchParams) ==
    GroupData("norte", << HourlyRecord(PvgisTime(2020, 1, 15, 15, 10), 1000) >>,
              fetchParams)

GroupDataChoices ==
    { SouthData(fp) : fp \in FetchChoices }
    \cup { WestData(fp) : fp \in FetchChoices }
    \cup { OrphanData(fp) : fp \in { NoFetchParams, FetchParams(Rat(1, 1), 30, 0, 14) } }

PanelGroupChoices == { << SouthGroup, WestGroup >>, << WestGroup >> }

SolarInstallations ==
    { SolarInstallation(TRUE, TRUE, data, groups, 3739, 14) :
        data \in SeqsUpTo(GroupDataChoices, MaxGroupData), groups \in PanelGroupChoices }
    \cup { SolarInstallation(TRUE, FALSE, << >>, groups, 3739, 14) :
             groups \in PanelGroupChoices }

\* the call of buildSolarIndex: its argument and the groups it warned about
IndexBuilt(installation) ==
    [built |-> TRUE, installation |-> installation, stale |-> staleWarnings(installation)]

\* one call of the pure function per behaviour
BuildSolarIndex ==
    /\ shadowArgs = NoShadowCall
    /\ solarInstallation = NoInstallationBuilt
    /\ \E installation \in SolarInstallations :
        /\ solarInstallation' = IndexBuilt(installation)
        /\ groupTotals' = buildSolarIndex(installation)
    /\ UNCHANGED << shadowArgs, shadowFactor, runVars, billVars, tariffVars, batchVars >>

SolarNext == CalculateShadowFactor \/ BuildSolarIndex

SolarSpec == SolarInit /\ [][SolarNext]_vars

----------------------------------------------------------------------------
(* Sanity of the fixed-point arithmetic: every division of the run is exact *)

ArithmeticExact ==
    /\ (battery.maxPowerW * EnergyScale) % 1000 = 0
    /\ \A k \in DOMAIN hourlyResults :
        LET hr   == hourlyResults[k]
            prev == IF k = 1 THEN 0 ELSE hourlyResults[k - 1].batteryLevel
            eff  == batteryEfficiency(battery)
        IN /\ hr.batteryCharge > 0 =>
                /\ ((batteryCapacity(battery) - prev) * 100) % eff = 0
                /\ (hr.batteryCharge * eff) % 100 = 0
                /\ (hr.batteryCharge * (100 - eff)) % 100 = 0
           /\ hr.energyCost % PerCentSquared = 0
           /\ hr.surplusValue % PerCentSquared = 0
           /\ hr.powerTermCost % PerCentSquared = 0
           /\ (hr.powerTermPrice * getContractedPower(offer, "punta") * Mil) % 24 = 0
    /\ offer.virtualBatteryMonthlyFee % PerCentSquared = 0
    /\ offer.meterRentalPerDay % PerCentSquared = 0

----------------------------------------------------------------------------
(* Claims about the battery dispatch *)

\* C1: with a battery configured, the level carried by runSimulation, which
\* starts at 0, is after every simulated hour at least 0 and at most the
\* battery's capacity
C1_BatteryLevelWithinCapacity ==
    battery.present =>
        /\ 0 <= batteryLevel /\ batteryLevel <= Kwh(battery.capacityKwh)
        /\ \A k \in DOMAIN hourlyResults :
            /\ 0 <= hourlyResults[k].batteryLevel
            /\ hourlyResults[k].batteryLevel <= Kwh(battery.capacityKwh)

\* the battery was charged up to its capacity, the last charge cut by the room left
C1_Witness ==
    /\ battery.present
    /\ Len(hourlyResults) >= 2
    /\ batteryLevel = Kwh(battery.capacityKwh)
    /\ hourlyResults[Len(hourlyResults)].batteryCharge > 0
    /\ hourlyResults[Len(hourlyResults)].gridSurplus > 0

\* C2: every hourly result satisfies consumption + batteryCharge =
\* solarProduction + gridPurchase - gridSurplus, batteryCharge being negative
\* when discharging and positive when charging, with or without a battery
C2_EnergyBalance ==
    \A k \in DOMAIN hourlyResults :
        LET hr == hourlyResults[k]
        IN hr.consumption + hr.batteryCharge
              = hr.solarProduction + hr.gridPurchase - hr.gridSurplus

\* a run in which the battery charged in one hour and discharged in a later
\* one without covering the whole deficit
C2_Witness ==
    \E j, k \in DOMAIN hourlyResults :
        /\ j < k
        /\ hourlyResults[j].batteryCharge > 0
        /\ hourlyResults[k].batteryCharge < 0
        /\ hourlyResults[k].gridPurchase > 0

----------------------------------------------------------------------------
(* Claims about the billing passes of runSimulation *)

\* C3: for an offer without a virtual battery exactly one billing pass runs,
\* and the virtual-battery balance is 0 after every month and in the result
C3_SinglePassWithoutVirtualBattery ==
    ~offer.hasVirtualBattery =>
        /\ passes <= 1
        /\ virtualBatteryBalance = 0
        /\ \A k \in DOMAIN monthlyBreakdown : monthlyBreakdown[k].virtualBatteryBalance = 0
        /\ pc = "done" =>
            /\ passes = 1
            /\ result.virtualBatteryBalance = 0
            /\ result.monthlyBreakdown = monthlyBreakdown

\* a returned run without virtual battery over two months, one of which left
\* surplus value that no energy cost compensated
C3_Witness ==
    /\ ~offer.hasVirtualBattery
    /\ pc = "done"
    /\ Len(monthlyBreakdown) = 2
    /\ \E k \in DOMAIN monthlyBreakdown :
        /\ monthlyBreakdown[k].gridSurplusKwh > 0
        /\ monthlyBreakdown[k].surplusCompensation = 0

\* C4 as stated: with a virtual battery, a run never executes more than 10
\* billing passes
C4_AtMostTenPasses ==
    offer.hasVirtualBattery => passes <= MaxIterations

\* the state of the passes of an offer with a virtual battery: the first starts
\* from 0, the loop goes on exactly while the last change of the year-end
\* balance was 0.01 or more, and it ends on a smaller change or after the
\* 10 iterations that follow the first pass
C4_PassState ==
    offer.hasVirtualBattery =>
        /\ passes <= MaxIterations + 1
        /\ passes = 1 => passStart = 0
        /\ (pc = "iterate" /\ passes >= 2) =>
              Abs(virtualBatteryBalance - passStart) >= ConvergenceThreshold
        /\ pc = "done" =>
              /\ passes >= 2
              /\ \/ Abs(virtualBatteryBalance - passStart) < ConvergenceThreshold
                 \/ passes = MaxIterations + 1

\* every pass after the first starts from the year-end balance of the pass before
C4_PassStep ==
    (passes >= 1 /\ passes' = passes + 1) => passStart' = virtualBatteryBalance

\* C4 amended: a run with a virtual battery makes at most 11 billing passes
\* (the pass from balance 0 and at most 10 iterations), each later pass starting
\* from the year-end balance before it, and stops as soon as that balance
\* changes by less than 0.01 between passes
C4_PassesBounded == [](C4_PassState) /\ [][C4_PassStep]_vars

\* a run with a virtual battery that returned after 11 passes, never converged
C4_Witness ==
    /\ offer.hasVirtualBattery
    /\ pc = "done"
    /\ passes = MaxIterations + 1
    /\ Abs(virtualBatteryBalance - passStart) >= ConvergenceThreshold

\* C5 as stated: when a run with a virtual battery returns, the starting
\* balance of its last pass and the returned balance differ by less than 0.01
C5_AlwaysSteady ==
    (offer.hasVirtualBattery /\ pc = "done") =>
        Abs(result.virtualBatteryBalance - passStart) < ConvergenceThreshold

\* C5 amended: when a run with a virtual battery returns after fewer than 11
\* passes, the returned breakdown and balance are those of its last pass, whose
\* starting and year-end balance differ by less than 0.01
C5_SteadyUnlessCapHit ==
    (offer.hasVirtualBattery /\ pc = "done") =>
        /\ result.monthlyBreakdown =
              runBillingPass(hourlyResults, offer, passStart).breakdown
        /\ result.virtualBatteryBalance =
              runBillingPass(hourlyResults, offer, passStart).endBalance
        /\ passes < MaxIterations + 1 =>
              Abs(result.virtualBatteryBalance - passStart) < ConvergenceThreshold

\* a run that returned on its second pass in a steady state: the year starts
\* and ends with the same positive balance, and a month drew credit from it
C5_Witness ==
    /\ offer.hasVirtualBattery
    /\ pc = "done"
    /\ passes = 2
    /\ result.virtualBatteryBalance > 0
    /\ result.virtualBatteryBalance = passStart
    /\ \E k \in DOMAIN result.monthlyBreakdown :
          result.monthlyBreakdown[k].virtualBatteryUsedEuros > 0

----------------------------------------------------------------------------
(* Claims about calculateBill *)

\* the bill's total before the virtual-battery credit: subtotal plus VAT
totalBeforeCredit(b) ==
    (b.energyCost - b.surplusCompensation) + b.powerTerm + b.meterRental
    + b.electricityTax + b.virtualBatteryFee + b.iva

\* C6: with surplus compensation capped, the flag true or absent, calculateBill
\* returns surplusCompensation <= energyCost for any month
C6_CompensationCapped ==
    (bill.called /\ offer.surplusCompensationCapped \in {"true", "unset"}) =>
        /\ bill.surplusCompensation <= bill.energyCost
        /\ bill.surplusCompensation <= bill.surplusGenerated

\* a month, billed with the flag absent, whose surplus was worth more than the
\* energy bought, so that the cap cut the compensation
C6_Witness ==
    /\ bill.called
    /\ offer.surplusCompensationCapped = "unset"
    /\ bill.energyCost > 0
    /\ bill.surplusGenerated > bill.energyCost
    /\ bill.surplusCompensation = bill.energyCost

\* C7: with a virtual battery and a non-empty month, the credit used is
\* min(startingBalance, totalBeforeCredit), the new balance is
\* startingBalance - used + leftover surplus, and total = totalBeforeCredit - used
C7_VirtualBatteryBill ==
    (bill.called /\ offer.hasVirtualBattery /\ Len(billArgs.hourlyResults) > 0) =>
        LET used     == bill.virtualBatteryUsedEuros
            leftover == bill.surplusGenerated - bill.surplusCompensation
        IN /\ used = Min(billArgs.balance, totalBeforeCredit(bill))
           /\ bill.newVirtualBatteryBalance = billArgs.balance - used + leftover
           /\ bill.total = totalBeforeCredit(bill) - used
           /\ bill.virtualBatteryDepositedEuros = leftover

\* a month whose bill was smaller than the balance: the credit pays it whole,
\* and leftover surplus is deposited
C7_Witness ==
    /\ bill.called
    /\ offer.hasVirtualBattery
    /\ Len(billArgs.hourlyResults) > 0
    /\ bill.virtualBatteryUsedEuros > 0
    /\ bill.virtualBatteryUsedEuros < billArgs.balance
    /\ bill.virtualBatteryDepositedEuros > 0
    /\ bill.total = 0

\* C8: without a virtual battery or with an empty month the balance returned is
\* the starting balance; the bill of an empty month is 0 in every field, and
\* without a virtual battery total = totalBeforeCredit, nothing used or deposited
C8_BalanceUnchanged ==
    bill.called =>
        /\ (~offer.hasVirtualBattery \/ Len(billArgs.hourlyResults) = 0) =>
              bill.newVirtualBatteryBalance = billArgs.balance
        /\ Len(billArgs.hourlyResults) = 0 =>
              \A f \in { "energyCost", "surplusGenerated", "surplusCompensation",
                         "virtualBatteryDepositedEuros", "virtualBatteryUsedEuros",
                         "virtualBatteryFee", "powerTerm", "meterRental",
                         "electricityTax", "iva", "total" } : bill[f] = 0
        /\ ~offer.hasVirtualBattery =>
              /\ bill.total = totalBeforeCredit(bill)
              /\ bill.virtualBatteryUsedEuros = 0
              /\ bill.virtualBatteryDepositedEuros = 0
              /\ bill.virtualBatteryFee = 0

\* an empty month billed on a positive balance under an offer with a virtual
\* battery and a monthly fee
C8_Witness ==
    /\ bill.called
    /\ Len(billArgs.hourlyResults) = 0
    /\ billArgs.balance > 0
    /\ offer.hasVirtualBattery
    /\ offer.virtualBatteryMonthlyFee > 0
    /\ bill.newVirtualBatteryBalance = billArgs.balance

----------------------------------------------------------------------------
(* Claims about the tariff period resolver *)

RECURSIVE DaysBeforeYear(_)
\* days from 2024-01-01, a Monday, to the first of January of year y >= 2024
DaysBeforeYear(y) ==
    IF y <= 2024 THEN 0
    ELSE DaysBeforeYear(y - 1) + (IF IsLeapYear(y - 1) THEN 366 ELSE 365)

RECURSIVE DaysBeforeMonth(_, _)
DaysBeforeMonth(y, m) ==
    IF m = 1 THEN 0 ELSE DaysBeforeMonth(y, m - 1) + DaysInMonthOf(y, m - 1)

\* the day of the week by counting days: 0 = Monday .. 6 = Sunday
WeekdayFromMonday(date) ==
    (DaysBeforeYear(date.y) + DaysBeforeMonth(date.y, date.m) + date.d - 1) % 7

IsSaturdayOrSunday(date) == WeekdayFromMonday(date) \in {5, 6}

\* C9: under the 2.0TD schedule every hour 1..24 of every date resolves to
\* valle on Saturdays, Sundays and the fixed national holidays, and otherwise
\* to valle for hours 1-8, punta for 11-14 and 19-22, llano for 9-10, 15-18
\* and 23-24
C9_RegulatedPeriods ==
    (schedule.type = "2.0TD" /\ query # NoQuery) =>
        \A h \in Hours :
            /\ periods[h] \in {"valle", "llano", "punta"}
            /\ (IsSaturdayOrSunday(query) \/ << query.m, query.d >> \in NATIONAL_HOLIDAYS)
                  => periods[h] = "valle"
            /\ ~(IsSaturdayOrSunday(query) \/ << query.m, query.d >> \in NATIONAL_HOLIDAYS)
                  => /\ h \in 1..8 => periods[h] = "valle"
                     /\ h \in (11..14) \cup (19..22) => periods[h] = "punta"
                     /\ h \in (9..10) \cup (15..18) \cup (23..24) => periods[h] = "llano"

\* Wednesday 15 January 2025, a working day: hour 5 is valle and hour 20 punta
C9_Witness ==
    /\ schedule.type = "2.0TD"
    /\ query = Date(2025, 1, 15)
    /\ WeekdayFromMonday(query) = 2
    /\ periods[5] = "valle"
    /\ periods[20] = "punta"
    /\ periods[16] = "llano"

\* C10: for a custom schedule that validateSchedule accepts, every hour 1..24
\* of every calendar date resolves to a slot name other than "unknown"
C10_ValidatedScheduleResolves ==
    (schedule.type = "custom" /\ errors = << >> /\ query # NoQuery) =>
        \A h \in Hours : periods[h] # "unknown"

\* the same statement for schedules with at least one date range; it fails too:
\* dayOfYear counts day 31 of February as 2 March, so 1 January - 31 February
\* and 3 March - 31 December tile the 366 days of validateDateRanges, while
\* dateInRange finds 1 and 2 March in neither
ValidatedNonEmptyScheduleResolves ==
    (schedule.type = "custom" /\ Len(schedule.dateRanges) > 0 /\ errors = << >>
        /\ query # NoQuery) =>
        \A h \in Hours : periods[h] # "unknown"

----------------------------------------------------------------------------
(* Custom schedules, stated on month-day pairs and sets of clock hours *)

\* << m1, d1 >> is not after << m2, d2 >> in the calendar
NotAfter(m1, d1, m2, d2) == m1 < m2 \/ (m1 = m2 /\ d1 <= d2)

\* the date lies in the window of the range, which wraps over the year
\* boundary when its start is after its end
InWindow(date, range) ==
    IF NotAfter(range.startMonth, range.startDay, range.endMonth, range.endDay)
    THEN /\ NotAfter(range.startMonth, range.startDay, date.m, date.d)
         /\ NotAfter(date.m, date.d, range.endMonth, range.endDay)
    ELSE \/ NotAfter(range.startMonth, range.startDay, date.m, date.d)
         \/ NotAfter(date.m, date.d, range.endMonth, range.endDay)

\* the clock hours 0..23 of a slot, past midnight when it wraps
ClockHoursOf(ts) ==
    IF ts.startHour < ts.endHour
    THEN ts.startHour .. (ts.endHour - 1)
    ELSE (ts.startHour .. 23) \cup (0 .. (ts.endHour - 1))

MatchingRanges(date, dateRanges) ==
    { k \in DOMAIN dateRanges : InWindow(date, dateRanges[k]) }

MatchingSlots(h, timeSlots) ==
    { k \in DOMAIN timeSlots : (h - 1) \in ClockHoursOf(timeSlots[k]) }

Least(S) == CHOOSE k \in S : \A j \in S : k <= j

IsRestDay(date) ==
    IsSaturdayOrSunday(date) \/ << date.m, date.d >> \in NATIONAL_HOLIDAYS

\* the name of the first time slot of the range that contains hour h
FirstSlotNameIs(range, h, name) ==
    /\ MatchingSlots(h, range.timeSlots) # {}
    /\ name = range.timeSlots[Least(MatchingSlots(h, range.timeSlots))].name

\* C11 as stated: on a weekend or holiday a matching range whose
\* weekendBehavior is 'specific' yields its weekendSlotName for every hour
C11_SpecificAlwaysNamed ==
    (schedule.type = "custom" /\ query # NoQuery
        /\ MatchingRanges(query, schedule.dateRanges) # {}) =>
        LET range == schedule.dateRanges[Least(MatchingRanges(query, schedule.dateRanges))]
        IN (IsRestDay(query) /\ range.weekendBehavior = "specific") =>
               \A h \in Hours : periods[h] = range.weekendSlotName

\* C11 amended: the first date range whose window contains the date decides;
\* on a weekend or holiday, if it is 'specific' and has a non-empty
\* weekendSlotName, every hour yields that name; otherwise (working day,
\* 'same', or no weekend slot name) an hour covered by a time slot yields the
\* name of the first time slot whose window contains hour-1
C11_CustomPeriod ==
    (schedule.type = "custom" /\ query # NoQuery
        /\ MatchingRanges(query, schedule.dateRanges) # {}) =>
        LET range == schedule.dateRanges[Least(MatchingRanges(query, schedule.dateRanges))]
            named == /\ IsRestDay(query)
                     /\ range.weekendBehavior = "specific"
                     /\ range.weekendSlotName # ""
        IN \A h \in Hours :
            /\ named => periods[h] = range.weekendSlotName
            /\ (~named /\ MatchingSlots(h, range.timeSlots) # {}) =>
                  FirstSlotNameIs(range, h, periods[h])

\* a Saturday in January under two overlapping ranges, the first one wrapping
\* over the year boundary with weekend slot "finde": every hour is "finde"
C11_Witness ==
    /\ schedule.type = "custom"
    /\ query = Date(2025, 1, 4)
    /\ Len(schedule.dateRanges) = 2
    /\ MatchingRanges(query, schedule.dateRanges) = {1, 2}
    /\ schedule.dateRanges[1].startMonth > schedule.dateRanges[1].endMonth
    /\ schedule.dateRanges[1].weekendBehavior = "specific"
    /\ \A h \in Hours : periods[h] = "finde"

\* C12: both resolvers return a period name for every schedule, date and
\* hour: "flat" for a missing or flat schedule, one of the three (two for
\* power) regulated names under 2.0TD, and for a custom schedule a name
\* of the schedule or "unknown", which is what a date in no range and an hour
\* in no time slot yield
C12_ResolversTotal ==
    query # NoQuery =>
        \A h \in Hours :
            /\ schedule.type \in {"null", "flat"} =>
                  periods[h] = "flat" /\ powerPeriods[h] = "flat"
            /\ schedule.type = "2.0TD" =>
                  /\ periods[h] \in {"valle", "llano", "punta"}
                  /\ powerPeriods[h] \in {"valle", "punta"}
            /\ schedule.type = "custom" =>
                  LET rs == schedule.dateRanges
                      ms == MatchingRanges(query, rs)
                      names == { rs[k].weekendSlotName : k \in DOMAIN rs } \cup
                               UNION { { rs[k].timeSlots[t].name : t \in DOMAIN rs[k].timeSlots } :
                                       k \in DOMAIN rs }
                  IN /\ periods[h] \in (names \ {""}) \cup {"unknown"}
                     /\ powerPeriods[h] = periods[h]
                     /\ ms = {} => periods[h] = "unknown"
                     /\ (ms # {} /\ ~(IsRestDay(query)
                                       /\ rs[Least(ms)].weekendBehavior = "specific"
                                       /\ rs[Least(ms)].weekendSlotName # "")
                               /\ MatchingSlots(h, rs[Least(ms)].timeSlots) = {})
                           => periods[h] = "unknown"

\* a date before the only range of the schedule resolves to "unknown" all day
C12_WitnessNoRange ==
    /\ schedule.type = "custom"
    /\ Len(schedule.dateRanges) = 1
    /\ query # NoQuery
    /\ MatchingRanges(query, schedule.dateRanges) = {}
    /\ \A h \in Hours : periods[h] = "unknown" /\ powerPeriods[h] = "unknown"

\* C13: under the 2.0TD schedule the power period is valle on Saturdays,
\* Sundays and national holidays and for hours 1-8 of working days, and punta
\* for hours 9..24 of working days; never llano
C13_PowerPeriods ==
    (schedule.type = "2.0TD" /\ query # NoQuery) =>
        \A h \in Hours :
            /\ powerPeriods[h] \in {"valle", "punta"}
            /\ IsRestDay(query) => powerPeriods[h] = "valle"
            /\ (~IsRestDay(query) /\ h \in 1..8) => powerPeriods[h] = "valle"
            /\ (~IsRestDay(query) /\ h \in 9..24) => powerPeriods[h] = "punta"

\* Thursday 16 January 2025: hour 9 is llano for energy and punta for power
C13_Witness ==
    /\ schedule.type = "2.0TD"
    /\ query = Date(2025, 1, 16)
    /\ periods[9] = "llano"
    /\ powerPeriods[9] = "punta"
    /\ powerPeriods[8] = "valle"
    /\ powerPeriods[24] = "punta"

----------------------------------------------------------------------------
(* Claims about a run without battery and about the self-consumption ratio *)

\* C14: when battery is null every hourly result has batteryCharge,
\* batteryLoss and batteryLevel 0, gridPurchase = max(consumption -
\* production, 0) and gridSurplus = max(production - consumption, 0)
C14_NoBatteryNoDispatch ==
    ~battery.present =>
        /\ batteryLevel = 0
        /\ \A k \in DOMAIN hourlyResults :
            LET hr == hourlyResults[k]
                deficit == hr.consumption - hr.solarProduction
            IN /\ hr.batteryCharge = 0
               /\ hr.batteryLoss = 0
               /\ hr.batteryLevel = 0
               /\ hr.gridPurchase = (IF deficit > 0 THEN deficit ELSE 0)
               /\ hr.gridSurplus = (IF deficit < 0 THEN -deficit ELSE 0)

\* a run without battery with an hour of surplus and a later hour of deficit
C14_Witness ==
    /\ ~battery.present
    /\ \E j, k \in DOMAIN hourlyResults :
        /\ j < k
        /\ hourlyResults[j].gridSurplus = Kwh(1)
        /\ hourlyResults[j].gridPurchase = 0
        /\ hourlyResults[k].gridPurchase = Kwh(2)
        /\ hourlyResults[k].gridSurplus = 0

\* a ratio is (production - exported surplus) / consumption, 0 for no consumption
IsSelfConsumptionOf(ratio, consumptionKwh, productionKwh, surplusKwh) ==
    IF consumptionKwh = 0 THEN ratio.num = 0
    ELSE ratio.num * consumptionKwh = (productionKwh - surplusKwh) * ratio.den

\* C15: the annual and the monthly self-consumption ratios are (production -
\* exported surplus) / consumption, 0 when consumption is 0, and lie between
\* 0 and 1
C15_RatioIsFraction ==
    pc = "done" =>
        /\ IsSelfConsumptionOf(result.selfConsumptionRatio, result.totalConsumption,
                               result.totalSolarProduction, result.totalGridSurplus)
        /\ 0 <= result.selfConsumptionRatio.num
        /\ result.selfConsumptionRatio.num <= result.selfConsumptionRatio.den
        /\ \A k \in DOMAIN result.monthlyBreakdown :
            LET m == result.monthlyBreakdown[k]
            IN /\ IsSelfConsumptionOf(m.selfConsumptionRatio, m.consumptionKwh,
                                      m.solarProductionKwh, m.gridSurplusKwh)
               /\ 0 <= m.selfConsumptionRatio.num
               /\ m.selfConsumptionRatio.num <= m.selfConsumptionRatio.den

\* the part of C15 that the code satisfies: the formula, and the ratio is
\* never negative; without a battery it is at most 1
RatioFormulaAndLowerBound ==
    pc = "done" =>
        /\ IsSelfConsumptionOf(result.selfConsumptionRatio, result.totalConsumption,
                               result.totalSolarProduction, result.totalGridSurplus)
        /\ 0 <= result.selfConsumptionRatio.num
        /\ ~battery.present =>
              result.selfConsumptionRatio.num <= result.selfConsumptionRatio.den

----------------------------------------------------------------------------
(* Claims about a batch of runs started by handleRun *)

\* the batch the click started has ended in the catch block
BatchFailed ==
    /\ selection # NoSelection
    /\ selection.loaded
    /\ validationError(selection) = "null"
    /\ hpc = "idle"
    /\ error # "null"

\* C16: when a runSimulation call of a batch fails, exactly one error message
\* is set, the batch stops running, and none of the results computed for the
\* earlier (offer, battery) combinations is published: results stays as it
\* was before the batch; nothing is published while the batch runs either
C16_FailedBatchAtomic ==
    /\ running => (results = << >> /\ errorCount = 0 /\ error = "null")
    /\ BatchFailed =>
        /\ errorCount = 1
        /\ error = "PVPC API error"
        /\ ~running
        /\ results = << >>

\* a batch that fails on a later combination, after a result was computed
C16_Witness ==
    /\ BatchFailed
    /\ Len(allResults) >= 1
    /\ allResults[1].returned
    /\ offerIdx = 2

\* the (offer, battery) combinations of a selection in the order handleRun
\* runs them
combinationsPerOffer(sel) == (IF sel.includeNoBattery THEN 1 ELSE 0) + Len(sel.selectedBats)

combinationOffer(sel, k) == sel.selectedOffers[((k - 1) \div combinationsPerOffer(sel)) + 1]

combinationBattery(sel, k) ==
    LET j == (k - 1) % combinationsPerOffer(sel)
    IN IF sel.includeNoBattery
       THEN IF j = 0 THEN NoBattery ELSE sel.selectedBats[j]
       ELSE sel.selectedBats[j + 1]

\* the tables of market prices the batch may have started from, given the
\* table now: the table only grows, by days the market serves
StartingCaches ==
    { c \in InitialCaches :
        /\ c \subseteq pvpcCache
        /\ (pvpcCache \ c) \subseteq (IF api.up THEN api.marketDates ELSE {}) }

\* the result of one combination run alone on the inputs of the selection: an
\* empty battery, a zero balance, the records as merged, the table as it was
SoloResult(sel, off, bat, cache) ==
    LET recs    == mergeSets(<< >>, sel.selectedSets, 1)
        ordered == sortConsumption(recs)
        out     == createEnergyPriceResolver(off, scheduleOfOffer(off),
                                             queriesOf(recs, ordered), cache, api)
        loop    == hourlyLoop(ordered, out.prices, buildSolarIndex(sel.installation), bat,
                              off, scheduleOfOffer(off), powerScheduleOfOffer(off), 1, 0,
                              << >>)
        billing == billingOf(loop.hourlyResults, off)
    IN IF out.ok
       THEN simulationResult(loop.hourlyResults, billing.breakdown, billing.endBalance)
       ELSE NoResult

\* what the runs of a batch leave of its inputs
InputsUntouched ==
    (selection # NoSelection /\ selection.loaded /\ validationError(selection) = "null") =>
        /\ mergedRecords = mergeSets(<< >>, selection.selectedSets, 1)
        /\ hpc \in {"await", "resolved"} =>
              /\ offer = selection.selectedOffers[offerIdx]
              /\ offer = combinationOffer(selection, Len(allResults) + 1)
              /\ battery = combinationBattery(selection, Len(allResults) + 1)

\* every result of the batch is the result of its combination run alone
ResultsAsAlone ==
    \A k \in DOMAIN allResults :
        \A c \in StartingCaches :
            allResults[k] = SoloResult(selection, combinationOffer(selection, k),
                                       combinationBattery(selection, k), c)

----------------------------------------------------------------------------
(* Claims about the prices the resolver returns *)

\* the call under way awaits the live-market resolver
AwaitingMarketPrices == hpc = "await" /\ offer.usePvpcPrices

\* the prices returned are those of the table, in the order of the queries,
\* with 0 where the table has no day for the query
MarketPricesOrZero ==
    (hpc = "resolved" /\ offer.usePvpcPrices) =>
        /\ Len(energyPrices) = Len(queries)
        /\ \A k \in DOMAIN queries :
              energyPrices[k] = (IF queries[k].date \in pvpcCache
                                 THEN pvpcDailyPrices(queries[k].date)[queries[k].hour]
                                 ELSE 0)

powerPeriodOf(hr) == resolvePowerTariffPeriod(powerScheduleOfOffer(offer), hr.date, hr.hour)

\* the periods of an hourly result are those its date and hour resolve to
PeriodResolved(hr) ==
    hr.tariffPeriod = resolveTariffPeriod(scheduleOfOffer(offer), hr.date, hr.hour)

\* without a price for the tariff period the energy is free
EnergyDefaultsToZero(hr) ==
    hr.tariffPeriod \notin DOMAIN offer.prices =>
        (hr.energyPrice = 0 /\ hr.energyCost = 0)

\* without a power price for the power period the power term is free
PowerPriceDefaultsToZero(hr) ==
    powerPeriodOf(hr) \notin DOMAIN offer.powerPrices =>
        (hr.powerTermPrice = 0 /\ hr.powerTermCost = 0)

\* a contracted power given per period is 0 for a period without entry; one
\* given as a number holds for every period
ContractedPowerDefaultsToZero(hr) ==
    IF offer.contractedPowerIsNumber
    THEN hr.powerTermCost = powerTermCostOf(hr.powerTermPrice, offer.contractedPowerKw)
    ELSE IF powerPeriodOf(hr) \in DOMAIN offer.contractedPowerByPeriod
         THEN hr.powerTermCost =
                 powerTermCostOf(hr.powerTermPrice,
                                 offer.contractedPowerByPeriod[powerPeriodOf(hr)])
         ELSE hr.powerTermCost = 0

\* C19 as stated: an hour whose tariff period is "unknown", or any period the
\* offer has no price for, has energyPrice and energyCost 0, and its power-term
\* price and contracted power are 0 when the power period has no entry
C19_UnpricedPeriodIsFree ==
    \A k \in DOMAIN hourlyResults :
        /\ PeriodResolved(hourlyResults[k])
        /\ EnergyDefaultsToZero(hourlyResults[k])
        /\ PowerPriceDefaultsToZero(hourlyResults[k])
        /\ ContractedPowerDefaultsToZero(hourlyResults[k])

\* C19: for an offer without live-market pricing, an hour whose tariff period
\* is "unknown", or any period the offer has no price for, has energyPrice and
\* energyCost 0, and its power-term price is 0 when the power period has no
\* entry; for every offer a per-period contracted power is 0 for a period
\* without entry. With live-market pricing the energy price is the market
\* price of the hour whatever the period, and the power-term price of a
\* period other than punta and valle is the regulated punta price
C19_UnpricedPeriodDefaults ==
    \A k \in DOMAIN hourlyResults :
        LET hr == hourlyResults[k]
        IN /\ PeriodResolved(hr)
           /\ ContractedPowerDefaultsToZero(hr)
           /\ IF offer.usePvpcPrices
              THEN /\ hr.energyPrice = (IF hr.date \in pvpcCache
                                        THEN pvpcDailyPrices(hr.date)[hr.hour] ELSE 0)
                   /\ hr.powerTermPrice =
                         (IF powerPeriodOf(hr) \in {"punta", "valle"}
                          THEN getPvpcPowerPrices(hr.date.y)[powerPeriodOf(hr)]
                          ELSE getPvpcPowerPrices(hr.date.y).punta)
              ELSE /\ EnergyDefaultsToZero(hr)
                   /\ PowerPriceDefaultsToZero(hr)

\* a run of the offer that prices only valle energy and punta power, with
\* energy bought in an hour of unknown period, in a punta hour and in a valle
\* hour
C19_Witness ==
    /\ offer = SparseOffer
    /\ \E j, k, l \in DOMAIN hourlyResults :
        /\ hourlyResults[j].tariffPeriod = "unknown"
        /\ hourlyResults[j].gridPurchase > 0
        /\ hourlyResults[j].energyCost = 0
        /\ hourlyResults[j].powerTermCost = 0
        /\ hourlyResults[k].tariffPeriod = "punta"
        /\ hourlyResults[k].gridPurchase > 0
        /\ hourlyResults[k].energyPrice = 0
        /\ hourlyResults[k].powerTermPrice = 90
        /\ hourlyResults[k].powerTermCost > 0
        /\ hourlyResults[l].tariffPeriod = "valle"
        /\ hourlyResults[l].energyPrice = 100
        /\ hourlyResults[l].powerTermPrice = 0

\* the records in ascending order of date and hour, each record of the input once
SortedRecordsOf(ordered, consumption) ==
    /\ Len(ordered) = Len(consumption)
    /\ \A k \in DOMAIN consumption : \E j \in DOMAIN ordered : ordered[j] = consumption[k]
    /\ \A j, k \in DOMAIN ordered :
          j < k => \/ ordered[j].date.y < ordered[k].date.y
                   \/ /\ ordered[j].date.y = ordered[k].date.y
                      /\ \/ ordered[j].date.m < ordered[k].date.m
                         \/ /\ ordered[j].date.m = ordered[k].date.m
                            /\ ordered[j].date.d < ordered[k].date.d
                         \/ /\ ordered[j].date.m = ordered[k].date.m
                            /\ ordered[j].date.d = ordered[k].date.d
                            /\ ordered[j].hour < ordered[k].hour

\* C20: in every run the energy-price resolver is called exactly once, with
\* one query per consumption record in sorted order; no hour is processed
\* before its prices have come back, one per query; and the i-th hourly result
\* is that of the i-th query's date and hour at the i-th returned price
C20_PricesBatchedBeforeLoop ==
    /\ hpc \in {"await", "resolved"} =>
          /\ resolverCalls = 1
          /\ SortedRecordsOf(sorted, mergedRecords)
          /\ Len(queries) = Len(sorted)
          /\ \A k \in DOMAIN queries :
                queries[k] = [date |-> sorted[k].date, hour |-> sorted[k].hour]
          /\ hourlyResults = << >>
    /\ hpc = "resolved" => Len(energyPrices) = Len(queries)
    /\ hourlyResults # << >> =>
          /\ resolverCalls = 1
          /\ Len(hourlyResults) = Len(queries)
          /\ Len(energyPrices) = Len(queries)
          /\ \A k \in DOMAIN hourlyResults :
                /\ hourlyResults[k].date = queries[k].date
                /\ hourlyResults[k].hour = queries[k].hour
                /\ hourlyResults[k].consumption = sorted[k].kwh
                /\ hourlyResults[k].energyPrice = energyPrices[k]
                /\ hourlyResults[k].energyCost =
                      EnergyMoney(hourlyResults[k].gridPurchase, energyPrices[k])

\* a finished run on records that came unsorted: the valle hour of 31 January
\* first, then its punta hour, then the Saturday
C20_Witness ==
    /\ hpc \in {"call", "idle"}
    /\ Len(hourlyResults) = 3
    /\ mergedRecords[1].date = Date(2025, 2, 1)
    /\ hourlyResults[1].date = Date(2025, 1, 31)
    /\ hourlyResults[1].hour = 5
    /\ hourlyResults[1].energyPrice = 100
    /\ hourlyResults[2].hour = 12
    /\ hourlyResults[2].energyPrice = 200
    /\ hourlyResults[3].date = Date(2025, 2, 1)
    /\ hourlyResults[3].energyPrice = 100

----------------------------------------------------------------------------
(* Claims about the shadow factor and the solar index *)

\* a JavaScript number within [0, 1]
InUnitInterval(x) == ~x.nan /\ 0 <= x.num /\ x.num <= x.den

\* the obstacle is centred exactly on the azimuth of the sun of the call
CentredOnSun(obstacle, args) ==
    LET sun == getSunPosition(args.hour, args.month, args.latitude)
    IN sun.up /\ angleDifference(sun.azimuth, obstacleAzimuthOf(obstacle)) = 0

\* the transparency of every transparent obstacle lies in 0..100, and no
\* obstacle of zero angular half-width is centred exactly on the sun
ObstaclesWellFormed(args) ==
    \A k \in DOMAIN args.obstacles :
        LET obstacle == args.obstacles[k]
        IN /\ (obstacle.type = "transparent" /\ "transparencyPercent" \in DOMAIN obstacle)
                 => obstacle.transparencyPercent \in 0..100
           /\ ~(obstacle.distance > 0 /\ halfWidthOf(obstacle) = 0
                /\ CentredOnSun(obstacle, args))

\* C21 as stated: calculateShadowFactor returns a value in [0, 1] for every
\* list of obstacles, hour, month, latitude and panel geometry, and exactly 1
\* for the empty list
C21_FactorInUnitInterval ==
    shadowArgs.called =>
        /\ InUnitInterval(shadowFactor)
        /\ Len(shadowArgs.obstacles) = 0 => shadowFactor = Rat(1, 1)

\* C21: calculateShadowFactor returns a value in [0, 1] for every hour,
\* month, latitude and panel geometry and every list of obstacles whose
\* transparency lies in 0..100 and none of which has a zero angular
\* half-width while centred exactly on the sun; it returns exactly 1 for the
\* empty list
C21_FactorInUnitIntervalWellFormed ==
    shadowArgs.called =>
        /\ ObstaclesWellFormed(shadowArgs) => InUnitInterval(shadowFactor)
        /\ Len(shadowArgs.obstacles) = 0 => shadowFactor = Rat(1, 1)

\* two well-formed obstacles that both shade the panel in part
C21_Witness ==
    /\ shadowArgs.called
    /\ Len(shadowArgs.obstacles) = 2
    /\ ObstaclesWellFormed(shadowArgs)
    /\ ~shadowFactor.nan
    /\ 0 < shadowFactor.num
    /\ shadowFactor.num < shadowFactor.den
    /\ \E k \in {1, 2} : shadowArgs.obstacles[k].type = "transparent"
    /\ \A k \in {1, 2} :
          calculateShadowFactor(<< shadowArgs.obstacles[k] >>, shadowArgs.hour,
                                shadowArgs.month, shadowArgs.latitude,
                                shadowArgs.panelHeight, shadowArgs.panelPhysicalHeightM,
                                shadowArgs.panelTiltDeg) # shadowFactor

----------------------------------------------------------------------------
(* Claims about the dispatch of the battery in one hour *)

\* the battery level the k-th hour started from
LevelBefore(k) == IF k = 1 THEN 0 ELSE hourlyResults[k - 1].batteryLevel

\* the smallest of three numbers, stated by what a minimum is
IsMinOf(x, a, b, c) == x <= a /\ x <= b /\ x <= c /\ (x = a \/ x = b \/ x = c)

\* C22: with a battery, an hour with net = consumption - production > 0
\* discharges exactly min(level, maxPowerW / 1000, net): the level falls by
\* that amount, the grid purchase is net minus that amount, batteryLoss is 0
\* and nothing is exported
C22_Discharge ==
    battery.present =>
        \A k \in DOMAIN hourlyResults :
            LET hr  == hourlyResults[k]
                net == hr.consumption - hr.solarProduction
                discharged == -hr.batteryCharge
            IN net > 0 =>
                  /\ IsMinOf(discharged, LevelBefore(k),
                             (battery.maxPowerW * EnergyScale) \div 1000, net)
                  /\ hr.batteryLevel = LevelBefore(k) - discharged
                  /\ hr.gridPurchase = net - discharged
                  /\ hr.batteryLoss = 0
                  /\ hr.gridSurplus = 0

\* an hour of deficit in which the discharge was cut by the power of the
\* battery: some charge is left and some energy is bought
C22_Witness ==
    /\ battery.present
    /\ \E k \in DOMAIN hourlyResults :
        /\ hourlyResults[k].consumption > hourlyResults[k].solarProduction
        /\ -hourlyResults[k].batteryCharge = (battery.maxPowerW * EnergyScale) \div 1000
        /\ hourlyResults[k].batteryCharge < 0
        /\ hourlyResults[k].batteryLevel > 0
        /\ hourlyResults[k].gridPurchase > 0

\* C23: with a battery, an hour with surplus = production - consumption > 0
\* charges min((capacity - level) / efficiency, maxPowerW / 1000, surplus):
\* the level rises by charge x efficiency, batteryLoss is charge x (1 -
\* efficiency), the exported surplus is surplus - charge and nothing is bought
C23_Charge ==
    battery.present =>
        \A k \in DOMAIN hourlyResults :
            LET hr      == hourlyResults[k]
                surplus == hr.solarProduction - hr.consumption
                charge  == hr.batteryCharge
                eff     == battery.roundTripEfficiency
            IN surplus > 0 =>
                  /\ IsMinOf(charge * eff,
                             (Kwh(battery.capacityKwh) - LevelBefore(k)) * 100,
                             ((battery.maxPowerW * EnergyScale) \div 1000) * eff,
                             surplus * eff)
                  /\ (hr.batteryLevel - LevelBefore(k)) * 100 = charge * eff
                  /\ hr.batteryLoss * 100 = charge * (100 - eff)
                  /\ hr.gridSurplus = surplus - charge
                  /\ hr.gridPurchase = 0

\* an hour of surplus in which the charge was cut by the room left in the
\* battery, after an hour in which it was cut by the power of the battery
C23_Witness ==
    /\ battery.present
    /\ \E j, k \in DOMAIN hourlyResults :
        /\ j < k
        /\ hourlyResults[j].batteryCharge = (battery.maxPowerW * EnergyScale) \div 1000
        /\ hourlyResults[j].batteryLoss > 0
        /\ hourlyResults[k].batteryCharge > 0
        /\ hourlyResults[k].batteryCharge < hourlyResults[j].batteryCharge
        /\ hourlyResults[k].batteryLevel = Kwh(battery.capacityKwh)
        /\ hourlyResults[k].gridSurplus > 0

----------------------------------------------------------------------------
(* Claims about the validation of custom schedules *)

\* the 366 month-day positions of the year, 29 February included
YearPositions ==
    { [m |-> mo, d |-> da] : mo \in 1..12, da \in 1..31 } \ { p \in { [m |-> mo, d |-> da] : mo \in 1..12, da \in 1..31 } : p.d > DAYS_IN_MONTH[p.m] }

HasDateError(kind) == \E e \in DOMAIN errors : errors[e].kind = kind

HasSlotError(kind, k) ==
    \E e \in DOMAIN errors : errors[e].kind = kind /\ errors[e].a = k - 1

\* what the validators report against the positions and clock hours the
\* ranges and slots cover
ValidatorsDecideTiling ==
    LET ranges == schedule.dateRanges
    IN /\ HasDateError("dateGap")
            <=> \E p \in YearPositions : MatchingRanges(p, ranges) = {}
       /\ HasDateError("dateOverlap")
            <=> \E p \in YearPositions : Cardinality(MatchingRanges(p, ranges)) > 1
       /\ \A k \in DOMAIN ranges :
            /\ HasSlotError("slotGap", k)
                 <=> \E h \in Hours : MatchingSlots(h, ranges[k].timeSlots) = {}
            /\ HasSlotError("slotOverlap", k)
                 <=> \E h \in Hours : Cardinality(MatchingSlots(h, ranges[k].timeSlots)) > 1

\* C24: the validators report a gap exactly when a month-day position (a
\* clock hour) is covered by no date range (time slot) and an overlap exactly
\* when one is covered by more than one, so their error lists are empty if and
\* only if every position and every clock hour is covered exactly once
C24_ValidatorsDecideTiling ==
    (schedule.type = "custom" /\ Len(schedule.dateRanges) > 0) =>
        ValidatorsDecideTiling

\* the start and the end of the range are days their months have
DaysExist(range) ==
    /\ range.startDay <= DAYS_IN_MONTH[range.startMonth]
    /\ range.endDay <= DAYS_IN_MONTH[range.endMonth]

\* the same statement for date ranges that start and end on days their months
\* have; it holds
TilingDecidedForExistingDays ==
    (schedule.type = "custom" /\ Len(schedule.dateRanges) > 0
        /\ \A k \in DOMAIN schedule.dateRanges : DaysExist(schedule.dateRanges[k])) =>
        ValidatorsDecideTiling

\* 1 January - 31 February and 3 March - 31 December pass validateDateRanges
\* and leave 1 and 2 March to no range
ValidatedWithUncoveredDays ==
    /\ schedule.type = "custom"
    /\ Len(schedule.dateRanges) > 0
    /\ ~HasDateError("dateGap")
    /\ ~HasDateError("dateOverlap")
    /\ MatchingRanges([m |-> 3, d |-> 1], schedule.dateRanges) = {}

----------------------------------------------------------------------------
(* Claims about the order of the consumption records *)

\* the records in every order they can be handed to runSimulation
OrdersOf(recs) ==
    { [k \in DOMAIN recs |-> recs[f[k]]] : f \in Permutations(DOMAIN recs) }

\* runSimulation on the records as given, the market-price table as given
ResultOn(recs, installation, off, bat, cache) ==
    LET ordered == sortConsumption(recs)
        out     == createEnergyPriceResolver(off, scheduleOfOffer(off),
                                             queriesOf(recs, ordered), cache, api)
        loop    == hourlyLoop(ordered, out.prices, buildSolarIndex(installation), bat,
                              off, scheduleOfOffer(off), powerScheduleOfOffer(off), 1, 0,
                              << >>)
        billing == billingOf(loop.hourlyResults, off)
    IN IF out.ok
       THEN simulationResult(loop.hourlyResults, billing.breakdown, billing.endBalance)
       ELSE NoResult

\* the hourly results are in ascending (date, hour) order, one per record
OnePerRecordAscending(hrs, recs) ==
    /\ Len(hrs) = Len(recs)
    /\ \A j, k \in DOMAIN hrs :
          j < k => recordKey(hrs[j]) < recordKey(hrs[k])
    /\ \A k \in DOMAIN recs :
          \E j \in DOMAIN hrs :
              /\ hrs[j].date = recs[k].date
              /\ hrs[j].hour = recs[k].hour
              /\ hrs[j].consumption = recs[k].kwh

\* C25: for records of distinct (date, hour), the hourly results of a run are
\* sorted by date then hour with one result per record, the SimulationResult
\* is the same for every order of the same records, and the array handed to
\* runSimulation keeps its order
C25_OrderOfInputIrrelevant ==
    result # NoResult =>
        /\ OnePerRecordAscending(result.hourlyResults, mergedRecords)
        /\ \A recs \in OrdersOf(mergedRecords) :
              \A c \in StartingCaches :
                  result = ResultOn(recs, selection.installation, offer, battery, c)
        /\ mergedRecords = mergeSets(<< >>, selection.selectedSets, 1)

\* a run with a battery over four records that came out of order, whose
\* hourly results differ in battery level
C25_Witness ==
    /\ result # NoResult
    /\ Len(mergedRecords) = 4
    /\ mergedRecords # sorted
    /\ battery.present
    /\ \E j, k \in DOMAIN result.hourlyResults :
          result.hourlyResults[j].batteryLevel # result.hourlyResults[k].batteryLevel

----------------------------------------------------------------------------
(* Claims about the solar index *)

\* the sum of the numbers f[x] for x in S
RECURSIVE RatSumOver(_, _)
RatSumOver(f, S) ==
    IF S = {} THEN Rat(0, 1)
    ELSE LET x == CHOOSE y \in S : TRUE
         IN RatAdd(f[x], RatSumOver(f, S \ {x}))

\* the samples of a group of fetched production that map to the key
SamplesAt(groupData, key) ==
    { k \in DOMAIN groupData.hourlyData : solarKeyOf(groupData.hourlyData[k]) = key }

\* current peak over fetched peak; production fetched with no parameters on
\* record counts as fetched at the current peak
PeakRatio(installation, groupData) ==
    IF groupData.fetchParams.stored
    THEN RatDiv(currentPeakKwOf(findGroup(installation, groupData.groupName)),
                groupData.fetchParams.peakPowerKw)
    ELSE Rat(1, 1)

\* the kWh of a sample, scaled by the peak ratio and by the shadow factor
ScaledKwh(installation, groupData, k) ==
    RatMul(RatMul(Rat(groupData.hourlyData[k].P, 1000), PeakRatio(installation, groupData)),
           shadowFactorOf(installation, findGroup(installation, groupData.groupName),
                          groupData.hourlyData[k]))

\* the mean over the samples of the group at the key
MeanAt(installation, groupData, key) ==
    RatDiv(RatSumOver([k \in SamplesAt(groupData, key) |->
                          ScaledKwh(installation, groupData, k)],
                      SamplesAt(groupData, key)),
           Rat(Cardinality(SamplesAt(groupData, key)), 1))

\* the groups of fetched production with a sample at the key
GroupsAt(installation, key) ==
    { g \in DOMAIN installation.pvgisData :
        SamplesAt(installation.pvgisData[g], key) # {} }

SolarKeys == (1..12) \X (1..31) \X (1..24)

\* the keys at which some group of the installation has a sample
SampledKeys(installation) ==
    IF ~installation.hasPvgisData THEN {}
    ELSE UNION { { solarKeyOf(installation.pvgisData[g].hourlyData[k]) :
                     k \in DOMAIN installation.pvgisData[g].hourlyData } :
                 g \in DOMAIN installation.pvgisData }

\* C26: the solar index holds, for each key << month, day, local hour >> at
\* which some group has a sample, the sum over those groups of the mean of
\* the group's samples at the key, each sample's kWh scaled by current over
\* fetched peak power and by the shadow factor; every other key is absent and
\* the production simulated for it is 0; stale tilt, azimuth or loss do not
\* stop the computation
C26_IndexIsSumOfGroupMeans ==
    solarInstallation.built =>
        \E installation \in { solarInstallation.installation } :
        \E sampled \in { SampledKeys(installation) } :
           /\ sampled \subseteq SolarKeys
           /\ DOMAIN groupTotals = sampled
           /\ \A key \in sampled :
                groupTotals[key] =
                    RatSumOver([g \in GroupsAt(installation, key) |->
                                  MeanAt(installation, installation.pvgisData[g], key)],
                               GroupsAt(installation, key))
           /\ \A key \in SolarKeys \ sampled :
                solarProductionOf(groupTotals, Date(2025, key[1], key[2]), key[3]) = 0

\* an index of two groups sharing a key, one of them shaded, rescaled and
\* warned about as stale, with three samples at the key over two years
C26_Witness ==
    /\ solarInstallation.built
    /\ "sur" \in solarInstallation.stale
    /\ Len(solarInstallation.installation.pvgisData) = 2
    /\ GroupsAt(solarInstallation.installation, << 1, 15, 14 >>) = {1, 2}
    /\ Cardinality(SamplesAt(solarInstallation.installation.pvgisData[1], << 1, 15, 14 >>)) = 3
    /\ PeakRatio(solarInstallation.installation, solarInstallation.installation.pvgisData[1]) = Rat(8, 1)
    /\ shadowFactorOf(solarInstallation.installation, SouthGroup, solarInstallation.installation.pvgisData[1].hourlyData[1]) # Rat(1, 1)
    /\ << 1, 1, 1 >> \in DOMAIN groupTotals
    /\ << 10, 25, 3 >> \in DOMAIN groupTotals

----------------------------------------------------------------------------
(* Claims about the sign of the virtual-battery balance and of the credit *)

\* C27: for an offer with a virtual battery (prices, fees and compensation
\* are not negative, the first pass starts from 0), the balance after every
\* month of every billing pass is not negative, and neither is any monthly total
C27_BalanceAndTotalsNotNegative ==
    offer.hasVirtualBattery =>
        /\ virtualBatteryBalance >= 0
        /\ passStart >= 0
        /\ \A k \in DOMAIN monthlyBreakdown :
              /\ monthlyBreakdown[k].virtualBatteryBalance >= 0
              /\ monthlyBreakdown[k].total >= 0

\* the step of one month, from any starting balance that is not negative
MonthKeepsBalanceNotNegative ==
    (bill.called /\ offer.hasVirtualBattery /\ billArgs.balance >= 0) =>
        /\ bill.newVirtualBatteryBalance >= 0
        /\ bill.total >= 0

\* a later pass over two months: the first deposits, the second draws credit
\* and still leaves a balance and a total to pay of 0 or more
C27_Witness ==
    /\ offer.hasVirtualBattery
    /\ passes >= 2
    /\ Len(monthlyBreakdown) >= 2
    /\ passStart > 0
    /\ monthlyBreakdown[1].virtualBatteryDepositedEuros > 0
    /\ monthlyBreakdown[2].virtualBatteryUsedEuros > 0
    /\ monthlyBreakdown[2].virtualBatteryBalance > 0
    /\ \E k \in DOMAIN monthlyBreakdown : monthlyBreakdown[k].total > 0

\* C28: for an offer with a virtual battery, capped or not, the credit drawn
\* in a month is between 0 and the starting balance, so the balance grows by
\* no more than the leftover surplus deposited
C28_CreditWithinBalance ==
    (bill.called /\ offer.hasVirtualBattery) =>
        /\ bill.virtualBatteryUsedEuros >= 0
        /\ bill.virtualBatteryUsedEuros <= billArgs.balance
        /\ bill.newVirtualBatteryBalance - billArgs.balance
              <= bill.virtualBatteryDepositedEuros

\* the same statement for capped compensation alone; it holds
CreditWithinBalanceWhenCapped ==
    (bill.called /\ offer.hasVirtualBattery /\ isCapped(offer)) =>
        /\ bill.virtualBatteryUsedEuros >= 0
        /\ bill.virtualBatteryUsedEuros <= billArgs.balance
        /\ bill.newVirtualBatteryBalance - billArgs.balance
              <= bill.virtualBatteryDepositedEuros

\* uncapped compensation larger than the rest of the bill: the credit drawn is
\* negative and the balance grows with nothing deposited
NegativeCreditDrawn ==
    /\ bill.called
    /\ offer.hasVirtualBattery
    /\ ~isCapped(offer)
    /\ bill.virtualBatteryUsedEuros < 0
    /\ bill.virtualBatteryDepositedEuros = 0
    /\ bill.newVirtualBatteryBalance > billArgs.balance
    /\ bill.total = 0

----------------------------------------------------------------------------
(* Claims about the growth of the balance over the billing passes *)

\* the year-end balance of a pass over the hours of the run
YearEndFrom(startBalance) == runBillingPass(hourlyResults, offer, startBalance).endBalance

\* while the loop runs, a pass from a larger starting balance ends the year
\* with a balance at least as large
PassIsMonotone ==
    (pc = "iterate" /\ offer.hasVirtualBattery) =>
        /\ YearEndFrom(0) <= YearEndFrom(virtualBatteryBalance)
        /\ YearEndFrom(virtualBatteryBalance) <= YearEndFrom(virtualBatteryBalance + Euro)
        /\ YearEndFrom(passStart) <= YearEndFrom(virtualBatteryBalance)

\* a billing pass is made: its year-end balance is at least the one before it
BalanceGrowsOverPass ==
    passes' = passes + 1 =>
        /\ virtualBatteryBalance' >= virtualBatteryBalance
        /\ passes = 0 => passStart' = 0
        /\ (pc' = "iterate" /\ passes >= 1) =>
              virtualBatteryBalance' - virtualBatteryBalance >= ConvergenceThreshold

\* C29: over the successive billing passes of one run the year-end balance
\* never decreases from one pass to the next (the pass is monotone in its
\* starting balance and the first pass starts from 0), so the loop goes on
\* only while the balance grew by 0.01 or more, up to the cap of passes
C29_BalanceNeverDecreases == [](PassIsMonotone) /\ [][BalanceGrowsOverPass]_vars

\* a run that stopped at the cap of passes, its balance larger after the last
\* pass than before it
C29_Witness ==
    /\ offer.hasVirtualBattery
    /\ pc = "done"
    /\ passes = MaxIterations + 1
    /\ virtualBatteryBalance >= passStart + ConvergenceThreshold
    /\ passStart > 0

----------------------------------------------------------------------------
(* Claims about the running flag of a batch *)

\* the click found the data loaded and the selection incomplete
ValidationFailed ==
    /\ selection # NoSelection
    /\ selection.loaded
    /\ validationError(selection) # "null"

\* a refused click leaves its message, the flag down and runSimulation uncalled
RefusedBatch ==
    ValidationFailed =>
        /\ error = validationError(selection)
        /\ ~running
        /\ hpc = "idle"
        /\ resolverCalls = 0
        /\ sorted = << >>
        /\ allResults = << >>
        /\ result = NoResult

\* a click that passes validation clears the message and raises the flag
StartsRunning ==
    (selection = NoSelection /\ selection' # NoSelection) =>
        ((selection'.loaded /\ validationError(selection') = "null") =>
            (running' /\ error' = "null" /\ hpc' = "call"))

\* C30: a batch that passes validation sets running to true and, every
\* awaited simulation settling, sets it back to false whether the batch
\* succeeds or throws; a click that fails validation sets an error, leaves
\* running false and never calls runSimulation
C30_BatchSettles ==
    /\ [](RefusedBatch)
    /\ [][StartsRunning]_vars
    /\ (running ~> (~running /\ hpc = "idle"))

\* a batch of several runs that raised the flag, published all its results
\* and lowered the flag again
C30_Witness ==
    /\ selection # NoSelection
    /\ ~running
    /\ hpc = "idle"
    /\ errorCount = 0
    /\ error = "null"
    /\ Len(results) >= 2
    /\ Len(results) = Len(selection.selectedOffers) * combinationsPerOffer(selection)

====
